---------------------------- MODULE Spec2Model ----------------------------
(* One tool invocation of the Gemini transcription server: the call handler  *)
(* of index.ts, the three transcribe functions of transcribe.ts and the      *)
(* audio preparation of audio.ts, over a temp directory, an ffmpeg/scp       *)
(* environment and the remote file API.                                      *)
(*                                                                           *)
(* Strings the code inspects character by character (file names, paths) are  *)
(* sequences of one-character strings; the empty sequence stands for both    *)
(* undefined and '' (the code only tests their truthiness).  Strings the     *)
(* code only compares or looks up (MIME types, tool names) are TLA+ strings. *)
EXTENDS Integers, Sequences, FiniteSets, TLC

VARIABLES
  req,               \* the arguments of the tool call (request.params)
  pc,                \* position of the invocation
  now,               \* the value Date.now() returns
  fs,                \* the temp directory: existing path -> size in bytes
  loc,               \* locals of the running prepare function
  audioInfo,         \* transcribe*: audioInfo (set = FALSE is null)
  uploadedFileName,  \* transcribe*: uploadedFileName ("" is null)
  remote,            \* state of the uploaded file at the remote API
  pending,           \* completion of the try block, delivered after finally
  response,          \* what the call handler returns to the host
  trace,             \* every external effect, in order
  parse,             \* a reply text on its way through parseJsonResponse
  sel,               \* a tool call on its way through the handler's selection
  conc,              \* two invocations sharing the temp directory
  save,              \* a returned result on its way through the handler's save
  sess,              \* one upload's life at the remote API
  cls,               \* a declared name and content type being classified
  fin,               \* a finally block over a temp directory where unlink may fail
  proc,              \* a spawned subprocess and the promise awaiting it
  splice,            \* speech spans being joined into the cleaned audio
  saves              \* two invocations saving into the same directories

\* the state of one tool invocation
callVars == <<req, pc, now, fs, loc, audioInfo, uploadedFileName, remote,
              pending, response, trace>>
\* the state the other specifications of this module run on
\* the variables of the specifications of single units
flows == <<parse, sel, conc, save, sess, cls>>
units == <<fin, proc, splice, saves>>
aux == <<flows, units>>

vars == <<callVars, aux>>

-----------------------------------------------------------------------------
(* Bounds of the model *)

\* Date.now() takes values 0..MaxTick
MaxTick == 1
\* speech spans the voice-activity detector may yield
MaxSegments == 1
\* speech spans joined into one cleaned audio, and samples per span
MaxSpans == 3
MaxSpanLen == 3

-----------------------------------------------------------------------------
(* types.ts *)

MAX_FILE_SIZE_BYTES == 100 * 1024 * 1024
DOWNSAMPLE_THRESHOLD_BYTES == 15 * 1024 * 1024

GEMINI_NATIVE_MIMES ==
  {"audio/wav", "audio/mp3", "audio/mpeg", "audio/aiff", "audio/aac",
   "audio/ogg", "audio/flac"}

GEMINI_NATIVE_FORMATS ==
  (<<".", "w", "a", "v">> :> "audio/wav") @@
  (<<".", "m", "p", "3">> :> "audio/mp3") @@
  (<<".", "a", "i", "f", "f">> :> "audio/aiff") @@
  (<<".", "a", "a", "c">> :> "audio/aac") @@
  (<<".", "o", "g", "g">> :> "audio/ogg") @@
  (<<".", "f", "l", "a", "c">> :> "audio/flac")

EXTENDED_FORMATS ==
  (<<".", "o", "p", "u", "s">> :> "audio/opus") @@
  (<<".", "m", "4", "a">> :> "audio/mp4") @@
  (<<".", "w", "e", "b", "m">> :> "audio/webm") @@
  (<<".", "w", "m", "a">> :> "audio/x-ms-wma") @@
  (<<".", "a", "m", "r">> :> "audio/amr") @@
  (<<".", "3", "g", "p">> :> "audio/3gpp") @@
  (<<".", "c", "a", "f">> :> "audio/x-caf") @@
  (<<".", "s", "p", "x">> :> "audio/ogg")

\* { ...GEMINI_NATIVE_FORMATS, ...EXTENDED_FORMATS }: the later spread wins
SUPPORTED_FORMATS == EXTENDED_FORMATS @@ GEMINI_NATIVE_FORMATS

\* the keys of MIME_TO_EXT (only membership is ever used)
MIME_TO_EXT ==
  {"audio/mpeg", "audio/mp3", "audio/wav", "audio/wave", "audio/x-wav",
   "audio/ogg", "audio/opus", "audio/flac", "audio/x-flac", "audio/aac",
   "audio/aiff", "audio/x-aiff", "audio/mp4", "audio/x-m4a", "audio/webm",
   "audio/x-ms-wma", "audio/amr", "audio/3gpp", "audio/x-caf"}

-----------------------------------------------------------------------------
(* String helpers: path.basename, path.extname, String.toLowerCase *)

Truthy(s) == s # <<>>

\* index of the last occurrence of character c in s, 0 when there is none
RECURSIVE LastIndexOf(_, _)
LastIndexOf(s, c) ==
  IF s = <<>> THEN 0
  ELSE IF s[Len(s)] = c THEN Len(s)
  ELSE LastIndexOf(SubSeq(s, 1, Len(s) - 1), c)

\* path.basename(p) for a path without a trailing separator
Basename(p) == SubSeq(p, LastIndexOf(p, "/") + 1, Len(p))

\* path.extname(p): from the last '.' of the basename, '' when there is none
\* or when the basename starts with its only '.'
ExtName(p) ==
  LET b == Basename(p)
      i == LastIndexOf(b, ".")
  IN IF i <= 1 THEN <<>> ELSE SubSeq(b, i, Len(b))

Upper ==
  <<"A", "B", "C", "D", "E", "F", "G", "H", "I", "J", "K", "L", "M", "N", "O",
    "P", "Q", "R", "S", "T", "U", "V", "W", "X", "Y", "Z">>
Lower ==
  <<"a", "b", "c", "d", "e", "f", "g", "h", "i", "j", "k", "l", "m", "n", "o",
    "p", "q", "r", "s", "t", "u", "v", "w", "x", "y", "z">>

LowerChar(c) ==
  IF \E i \in 1..26 : Upper[i] = c
  THEN Lower[CHOOSE i \in 1..26 : Upper[i] = c]
  ELSE c

ToLowerCase(s) == [i \in 1..Len(s) |-> LowerChar(s[i])]

-----------------------------------------------------------------------------
(* audio.ts: format classification *)

\* the property names an object literal inherits from Object.prototype: a
\* lookup of one of them in mimeNormalization or MIME_TO_EXT yields a function
ObjectPrototype == {"constructor", "toString", "valueOf"}
\* such an inherited member (not a string)
Inherited == "[Function]"

\* mimeNormalization[contentType] || contentType
NormalizeMime(contentType) ==
  CASE contentType = "audio/wave" -> "audio/wav"
    [] contentType = "audio/x-wav" -> "audio/wav"
    [] contentType = "audio/x-flac" -> "audio/flac"
    [] contentType = "audio/x-aiff" -> "audio/aiff"
    [] contentType = "audio/x-m4a" -> "audio/mp4"
    [] contentType \in ObjectPrototype -> Inherited
    [] OTHER -> contentType

\* contentType "" is null
getMimeTypeFromNameOrType(fileName, contentType) ==
  IF contentType # ""
     /\ (NormalizeMime(contentType) \in MIME_TO_EXT \cup ObjectPrototype
         \/ contentType \in MIME_TO_EXT \cup ObjectPrototype)
  THEN NormalizeMime(contentType)
  ELSE IF Truthy(fileName)
          /\ ToLowerCase(ExtName(fileName)) \in DOMAIN SUPPORTED_FORMATS
  THEN SUPPORTED_FORMATS[ToLowerCase(ExtName(fileName))]
  ELSE "audio/unknown"

\* faulty variant: every recognised type counts as native
isGeminiNativeFormat_recognised(mimeType) == mimeType # "audio/unknown"

isGeminiNativeFormat(mimeType) == mimeType \in GEMINI_NATIVE_MIMES


-----------------------------------------------------------------------------
(* Values *)

S_audio == <<"a", "u", "d", "i", "o">>
S_ogg == <<".", "o", "g", "g">>
S_wav == <<".", "w", "a", "v">>
S_dotaudio == <<".", "a", "u", "d", "i", "o">>

\* A temp path `${prefix}${Date.now()}${'_' + name | extension}` in os.tmpdir()
Path(prefix, ts, name) == [pre |-> prefix, ts |-> ts, name |-> name]
NoPath == Path("", 0, <<>>)

\* A completion: nothing yet, a returned result, or a thrown Error.  mb is the
\* size a "File too large" message states;
\* value holds the fields of a returned TranscriptionResponse.
NoValue == [k \in {} |-> 0]
Completion(kind, code, mb) ==
  [kind |-> kind, code |-> code, mb |-> mb, value |-> NoValue]
NoCompletion == Completion("none", "", 0)
Err(code) == Completion("error", code, 0)

\* What the call handler returns: the completion as JSON text or as an error
\* message (isError), with saved_to when the transcript was written to a file
Reply(c, saved) ==
  [kind |-> c.kind, code |-> c.code, mb |-> c.mb, value |-> c.value,
   saved |-> saved]
NoReply == Reply(NoCompletion, FALSE)

\* faulty variant: the Error leaves the handler
Caught_rethrown(e) == NoReply

\* the handler's catch block: the reply for a thrown Error
Caught(e) == Reply(e, FALSE)

\* An external effect
Ev(ev, path, src, size, mime) ==
  [ev |-> ev, path |-> path, src |-> src, size |-> size, mime |-> mime]

NoAudio ==
  [set |-> FALSE, processedPath |-> NoPath, mimeType |-> "",
   needsCleanup |-> FALSE, originalPath |-> NoPath]
PreparedAudioInfo(processedPath, mimeType, originalPath) ==
  [set |-> TRUE, processedPath |-> processedPath, mimeType |-> mimeType,
   needsCleanup |-> TRUE, originalPath |-> originalPath]

NoLoc ==
  [tempPath |-> NoPath, mime |-> "", size |-> 0, input |-> NoPath,
   vadInputPath |-> NoPath, segments |-> <<>>, vadProcessedPath |-> NoPath]

\* file system (fs.unlinkSync on an existing temp file succeeds)
EmptyFs == [q \in {} |-> 0]
Exists(f, p) == p \in DOMAIN f
WriteFile(f, p, n) == [q \in (DOMAIN f) \cup {p} |-> IF q = p THEN n ELSE f[q]]
Unlink(f, p) == [q \in (DOMAIN f) \ {p} |-> f[q]]

Count(ev) == Cardinality({i \in 1..Len(trace) : trace[i].ev = ev})

-----------------------------------------------------------------------------
(* Inputs *)

VALID_TOOLS ==
  {"transcribe_audio", "transcribe_audio_raw", "transcribe_audio_custom",
   "transcribe_audio_format", "transcribe_audio_large",
   "transcribe_audio_devspec", "transcribe_audio_vad"}

ToolNames == VALID_TOOLS \cup {"no_such_tool"}

\* file_content: base64 text; its decoded length is chosen when it is written
FileContents == {<<>>, <<"Q", "Q", "=", "=">>}
\* file_url, given by the pathname of the URL
FileUrls == {<<>>, <<"/", "r", ".", "m", "4", "a">>}
FileNames == {<<>>, <<"a", ".", "W", "A", "V">>, <<"b", ".", "w", "e", "b", "m">>}
SshHosts == {<<>>, <<"h">>}
SshPaths == {<<>>, <<"/", "v", ".", "m", "p", "3">>}
\* custom_prompt and format are read only for the tool that requires them
Texts == {<<>>, <<"x">>}

\* content-type headers of a download ("" is no header)
ContentTypes == {"", "audio/x-wav", "audio/webm", "text/html"}

HalfMiB == 512 * 1024
\* sizes in bytes an acquired file may have: around both thresholds, and
\* around the point where the size in MiB rounds up
Sizes ==
  {DOWNSAMPLE_THRESHOLD_BYTES, DOWNSAMPLE_THRESHOLD_BYTES + 1,
   MAX_FILE_SIZE_BYTES, MAX_FILE_SIZE_BYTES + 1,
   MAX_FILE_SIZE_BYTES + HalfMiB}
\* sizes of an ffmpeg output (no code path depends on them)
OutSizes == {4096}

\* raw is read only for transcribe_audio_vad (FALSE is also undefined)
Requests ==
  {r \in [tool : ToolNames, fileContent : FileContents, fileUrl : FileUrls,
          fileName : FileNames, sshHost : SshHosts, sshPath : SshPaths,
          custom_prompt : Texts, format : Texts, raw : BOOLEAN] :
     /\ (r.tool # "transcribe_audio_custom" => r.custom_prompt = <<>>)
     /\ (r.tool # "transcribe_audio_format" => r.format = <<>>)
     /\ (r.tool # "transcribe_audio_vad" => r.raw = FALSE)}

\* which of the three prepare functions the tool's transcribe function calls
PrepKind(tool) ==
  CASE tool = "transcribe_audio_large" -> "compressed"
    [] tool = "transcribe_audio_vad" -> "vad"
    [] OTHER -> "standard"

\* the value of a variable the running specification does not use
Idle == [stage |-> "idle"]

Init ==
  /\ req \in Requests
  /\ pc = "dispatch"
  /\ now = 0
  /\ fs = EmptyFs
  /\ loc = NoLoc
  /\ audioInfo = NoAudio
  /\ uploadedFileName = ""
  /\ remote = "none"
  /\ pending = NoCompletion
  /\ response = NoReply
  /\ trace = <<>>
  /\ parse = Idle /\ sel = Idle /\ conc = Idle
  /\ save = Idle /\ sess = Idle /\ cls = Idle
  /\ fin = Idle /\ proc = Idle /\ splice = Idle /\ saves = Idle

\* no tool call is under way
IdleCall ==
  /\ req = Idle
  /\ pc = "idle"
  /\ now = 0
  /\ fs = EmptyFs
  /\ loc = NoLoc
  /\ audioInfo = NoAudio
  /\ uploadedFileName = ""
  /\ remote = "none"
  /\ pending = NoCompletion
  /\ response = NoReply
  /\ trace = <<>>

\* the steps that read Date.now()
ClockReaders == {"prepare", "convert", "vad_convert", "vad_run"}

\* time passes (observed only by the next read of the clock)
Tick ==
  /\ pc \in ClockReaders
  /\ now < MaxTick
  /\ now' = now + 1
  /\ UNCHANGED <<aux, req, pc, fs, loc, audioInfo, uploadedFileName, remote,
                 pending, response, trace>>

-----------------------------------------------------------------------------
(* index.ts: the CallToolRequestSchema handler, up to the transcribe call *)

\* faulty variant: the tool-specific parameters are not checked
ValidationError_sourceOnly(tool, hasSource, custom_prompt, format) ==
  IF tool \notin VALID_TOOLS THEN "UnknownTool"
  ELSE IF ~hasSource THEN "MissingParameters"
  ELSE ""

\* the error the handler returns before its try block, "" when there is none
ValidationError(tool, hasSource, custom_prompt, format) ==
  IF tool \notin VALID_TOOLS THEN "UnknownTool"
  ELSE IF ~hasSource THEN "MissingParameters"
  ELSE IF tool = "transcribe_audio_custom" /\ ~Truthy(custom_prompt)
  THEN "MissingCustomPrompt"
  ELSE IF tool = "transcribe_audio_format" /\ ~Truthy(format)
  THEN "MissingFormat"
  ELSE ""

\* fileContent || fileUrl || sshHost
HasSource(r) ==
  Truthy(r.fileContent) \/ Truthy(r.fileUrl) \/ Truthy(r.sshHost)

\* an instruction text: a fixed prompt, the caller's text, or the template of
\* generateFormatPrompt filled with the format label
Prompt(kind, arg) == [kind |-> kind, arg |-> arg]
NoPrompt == Prompt("undefined", <<>>)
TRANSCRIPTION_PROMPT == Prompt("TRANSCRIPTION_PROMPT", <<>>)
RAW_TRANSCRIPTION_PROMPT == Prompt("RAW_TRANSCRIPTION_PROMPT", <<>>)
DEVSPEC_PROMPT == Prompt("DEVSPEC_PROMPT", <<>>)
generateFormatPrompt(format) == Prompt("generateFormatPrompt", format)

\* faulty variant: a supplied custom_prompt is used by every tool
SelectPrompt_anyCustom(tool, custom_prompt, format, raw) ==
  IF Truthy(custom_prompt) THEN Prompt("text", custom_prompt)
  ELSE IF tool = "transcribe_audio_raw" THEN RAW_TRANSCRIPTION_PROMPT
  ELSE IF tool = "transcribe_audio_format" THEN generateFormatPrompt(format)
  ELSE IF tool = "transcribe_audio_devspec" THEN DEVSPEC_PROMPT
  ELSE IF tool = "transcribe_audio_vad" /\ raw THEN RAW_TRANSCRIPTION_PROMPT
  ELSE NoPrompt

\* the handler's customPrompt for a tool
SelectPrompt(tool, custom_prompt, format, raw) ==
  IF tool = "transcribe_audio_raw" THEN RAW_TRANSCRIPTION_PROMPT
  ELSE IF tool = "transcribe_audio_custom" THEN Prompt("text", custom_prompt)
  ELSE IF tool = "transcribe_audio_format" THEN generateFormatPrompt(format)
  ELSE IF tool = "transcribe_audio_devspec" THEN DEVSPEC_PROMPT
  ELSE IF tool = "transcribe_audio_vad" /\ raw THEN RAW_TRANSCRIPTION_PROMPT
  ELSE NoPrompt

\* transcribe.ts: input.customPrompt ?? TRANSCRIPTION_PROMPT
PromptToUse(customPrompt) ==
  IF customPrompt = NoPrompt THEN TRANSCRIPTION_PROMPT ELSE customPrompt

Dispatch ==
  /\ pc = "dispatch"
  /\ LET e == ValidationError(req.tool, HasSource(req), req.custom_prompt,
                              req.format)
     IN IF e # ""
        THEN response' = Reply(Err(e), FALSE) /\ pc' = "done"
        ELSE response' = response /\ pc' = "entry"
  /\ UNCHANGED <<aux, req, now, fs, loc, audioInfo, uploadedFileName, remote,
                 pending, trace>>


-----------------------------------------------------------------------------
(* transcribe.ts: transcribeAudio / transcribeAudioCompressed /             *)
(* transcribeAudioWithVad.  The three functions differ only in the prepare  *)
(* function they call (PrepKind) and in the upload's display name.          *)

\* an Error thrown inside the try block, by the function or by a callee:
\* control passes to the finally block
\* faulty variant: the failed step is tried again
Throw_retried(e) ==
  /\ pending' = e
  /\ pc' = pc

Throw(e) ==
  /\ pending' = e
  /\ pc' = "finally"

\* new GoogleGenAI({ apiKey: getApiKey() }), before the try block
EntryNoApiKey ==
  /\ pc = "entry"
  /\ response' = Caught(Err("NoApiKey"))
  /\ pc' = "done"
  /\ UNCHANGED <<aux, req, now, fs, loc, audioInfo, uploadedFileName, remote,
                 pending, trace>>

\* the first statement of the try block
Entry ==
  /\ pc = "entry"
  /\ IF ~Truthy(req.fileContent) /\ ~Truthy(req.fileUrl) /\ ~Truthy(req.sshHost)
     THEN Throw(Err("InvalidInput"))
     ELSE pc' = "prepare" /\ pending' = pending
  /\ UNCHANGED <<aux, req, now, fs, loc, audioInfo, uploadedFileName, remote,
                 response, trace>>

-----------------------------------------------------------------------------
(* audio.ts: acquisition.  prepareAudioInput, prepareAudioInputCompressed   *)
(* and prepareAudioInputWithVad choose the source in the same order.        *)

\* faulty variant: forced compression shares the gate of standard preparation
AfterAcquire_gated(kind) == IF kind = "vad" THEN "vad_convert" ELSE "gate"

\* where the prepare function goes once the file is on disk
AfterAcquire(kind) ==
  CASE kind = "standard" -> "gate"
    [] kind = "compressed" -> "convert"
    [] kind = "vad" -> "vad_convert"

UploadPrefix(kind) == IF kind = "vad" THEN "gemini_vad_upload_" ELSE "gemini_upload_"
RemotePrefix(kind) == IF kind = "vad" THEN "gemini_vad_remote_" ELSE "gemini_remote_"
SshPrefix(kind) == IF kind = "vad" THEN "gemini_vad_ssh_" ELSE "gemini_ssh_"

\* fileName || path.basename(new URL(fileUrl).pathname || '') ||
\* `downloaded_${Date.now()}.audio`
ResolvedUrlName(fileName, fileUrl, ts) ==
  IF Truthy(fileName) THEN fileName
  ELSE IF Truthy(Basename(fileUrl)) THEN Basename(fileUrl)
  ELSE <<"downloaded_", ToString(ts)>> \o S_dotaudio

\* fileName || path.basename(sshPath) || `ssh_audio_${Date.now()}`
ResolvedSshName(fileName, sshPath, ts) ==
  IF Truthy(fileName) THEN fileName
  ELSE IF Truthy(Basename(sshPath)) THEN Basename(sshPath)
  ELSE <<"ssh_audio_", ToString(ts)>>

\* faulty variant: a URL is preferred to an inline payload
AcquisitionSource_urlFirst(params) ==
  IF Truthy(params.fileUrl) THEN "fileUrl"
  ELSE IF Truthy(params.fileContent) THEN "fileContent"
  ELSE IF Truthy(params.sshHost) /\ Truthy(params.sshPath) THEN "ssh"
  ELSE "none"

\* the branch taken by the if / else if chain on params.fileContent,
\* params.fileUrl and params.sshHost && params.sshPath
AcquisitionSource(params) ==
  IF Truthy(params.fileContent) THEN "fileContent"
  ELSE IF Truthy(params.fileUrl) THEN "fileUrl"
  ELSE IF Truthy(params.sshHost) /\ Truthy(params.sshPath) THEN "ssh"
  ELSE "none"

\* if (params.fileContent): decode, write the temp file, stat it
AcquireInline ==
  /\ pc = "prepare"
  /\ AcquisitionSource(req) = "fileContent"
  /\ LET kind == PrepKind(req.tool)
         tempPath == Path(UploadPrefix(kind), now,
                          IF Truthy(req.fileName) THEN req.fileName ELSE S_audio)
     IN \E sz \in Sizes :
          /\ fs' = WriteFile(fs, tempPath, sz)
          /\ trace' = Append(trace, Ev("write", tempPath, NoPath, sz, ""))
          /\ loc' = [loc EXCEPT !.tempPath = tempPath, !.input = tempPath,
                                !.size = sz,
                                !.mime = IF kind = "vad" THEN ""
                                         ELSE getMimeTypeFromNameOrType(req.fileName, "")]
          /\ pc' = AfterAcquire(kind)
  /\ UNCHANGED <<aux, req, now, audioInfo, uploadedFileName, remote, pending,
                 response>>

\* response.headers.get('content-type'), which prepareAudioInputWithVad
\* does not read
HeadersRead(kind) == IF kind = "vad" THEN {""} ELSE ContentTypes

\* else if (params.fileUrl): fetch, classify, open the write stream
FetchUrl ==
  /\ pc = "prepare"
  /\ AcquisitionSource(req) = "fileUrl"
  /\ \/ \* fetch rejects, or !response.ok
        /\ \E code \in {"FetchRejected", "FetchFailed"} : Throw(Err(code))
        /\ trace' = Append(trace, Ev("fetch", NoPath, NoPath, 0, ""))
        /\ UNCHANGED <<fs, loc>>
     \/ \E contentType \in HeadersRead(PrepKind(req.tool)), hasBody \in BOOLEAN :
          LET kind == PrepKind(req.tool)
              resolvedFileName == ResolvedUrlName(req.fileName, req.fileUrl, now)
              tempPath == Path(RemotePrefix(kind), now, resolvedFileName)
              mime == CASE kind = "standard" ->
                             getMimeTypeFromNameOrType(resolvedFileName, contentType)
                        [] kind = "compressed" ->
                             getMimeTypeFromNameOrType(req.fileName, contentType)
                        [] kind = "vad" -> ""
          IN /\ fs' = WriteFile(fs, tempPath, 0)   \* fs.createWriteStream
             /\ trace' = trace \o <<Ev("fetch", NoPath, NoPath, 0, ""),
                                    Ev("write", tempPath, NoPath, 0, "")>>
             /\ loc' = [loc EXCEPT !.tempPath = tempPath, !.input = tempPath,
                                   !.mime = mime]
             /\ IF hasBody THEN pc' = "download" /\ pending' = pending
                ELSE Throw(Err("NoResponseBody"))
  /\ UNCHANGED <<aux, req, now, audioInfo, uploadedFileName, remote, response>>

\* await pipeline(response.body, writeStream), then the stat
Download ==
  /\ pc = "download"
  /\ \E sz \in Sizes :
       /\ fs' = WriteFile(fs, loc.tempPath, sz)
       /\ trace' = Append(trace, Ev("write", loc.tempPath, NoPath, sz, ""))
       /\ \/ /\ loc' = [loc EXCEPT !.size = sz]
             /\ pc' = AfterAcquire(PrepKind(req.tool))
             /\ pending' = pending
          \/ \* the stream breaks: what was written stays
             /\ Throw(Err("DownloadFailed"))
             /\ loc' = loc
  /\ UNCHANGED <<aux, req, now, audioInfo, uploadedFileName, remote, response>>

\* else if (params.sshHost && params.sshPath): scp to the temp file
Scp ==
  /\ pc = "prepare"
  /\ AcquisitionSource(req) = "ssh"
  /\ LET kind == PrepKind(req.tool)
         resolvedFileName == ResolvedSshName(req.fileName, req.sshPath, now)
         tempPath == Path(SshPrefix(kind), now, resolvedFileName)
         mime == CASE kind = "standard" ->
                        getMimeTypeFromNameOrType(
                          IF Truthy(req.fileName) THEN req.fileName
                          ELSE resolvedFileName, "")
                   [] kind = "compressed" -> getMimeTypeFromNameOrType(req.fileName, "")
                   [] kind = "vad" -> ""
     IN /\ trace' = Append(trace, Ev("scp", tempPath, NoPath, 0, ""))
        /\ \/ \* scp cannot be started
              /\ Throw(Err("ToolUnavailable"))
              /\ UNCHANGED <<fs, loc>>
           \/ \* scp exits non-zero, with or without a partial file
              /\ Throw(Err("TransferFailed"))
              /\ \E partial \in BOOLEAN :
                   fs' = IF partial THEN WriteFile(fs, tempPath, 0) ELSE fs
              /\ loc' = loc
           \/ \E sz \in Sizes :
                /\ fs' = WriteFile(fs, tempPath, sz)
                /\ loc' = [loc EXCEPT !.tempPath = tempPath, !.input = tempPath,
                                      !.size = sz, !.mime = mime]
                /\ pc' = AfterAcquire(kind)
                /\ pending' = pending
  /\ UNCHANGED <<aux, req, now, audioInfo, uploadedFileName, remote, response>>

\* else: throw new Error('Provide one of: ...')
NoSource ==
  /\ pc = "prepare"
  /\ AcquisitionSource(req) = "none"
  /\ Throw(Err("InvalidInput"))
  /\ UNCHANGED <<aux, req, now, fs, loc, audioInfo, uploadedFileName, remote,
                 response, trace>>


-----------------------------------------------------------------------------
(* audio.ts: the size gate and the native/threshold decision of            *)
(* prepareAudioFromContent, prepareAudioFromUrl and prepareAudioFromSsh     *)

\* Math.round(size / 1024 / 1024) for size >= 0 (both divisions are exact in
\* double precision)
RoundedMiB_floor(size) == size \div (1024 * 1024)   \* faulty variant: Math.floor

RoundedMiB(size) == (2 * size + 1024 * 1024) \div (2 * 1024 * 1024)

\* stats.size > MAX_FILE_SIZE_BYTES
TooLarge(size) == size > MAX_FILE_SIZE_BYTES

\* faulty variant: a file of exactly the threshold size is converted
UseAsIs_below(mime, size) ==
  isGeminiNativeFormat(mime) /\ size < DOWNSAMPLE_THRESHOLD_BYTES

\* the file is used as acquired: native format, at or below the threshold
UseAsIs(mime, size) ==
  isGeminiNativeFormat(mime) /\ size <= DOWNSAMPLE_THRESHOLD_BYTES

SizeGate ==
  /\ pc = "gate"
  /\ IF TooLarge(loc.size)
     THEN /\ fs' = Unlink(fs, loc.tempPath)
          /\ trace' = Append(trace, Ev("unlink", loc.tempPath, NoPath, 0, ""))
          /\ Throw(Completion("error", "FileTooLarge", RoundedMiB(loc.size)))
          /\ audioInfo' = audioInfo
     ELSE IF UseAsIs(loc.mime, loc.size)
     THEN /\ audioInfo' = PreparedAudioInfo(loc.tempPath, loc.mime, loc.tempPath)
          /\ pc' = "upload"
          /\ UNCHANGED <<fs, trace, pending>>
     ELSE /\ pc' = "convert"
          /\ UNCHANGED <<fs, trace, pending, audioInfo>>
  /\ UNCHANGED <<aux, req, now, loc, uploadedFileName, remote, response>>

-----------------------------------------------------------------------------
(* audio.ts: ffmpeg *)

\* faulty variant: every temp file is deleted once the compressed file is
\* written
VadIntermediates_all(f, l) == DOMAIN f

\* the temp files of a VAD preparation that are deleted once the compressed
\* file is written: vadProcessedPath, unless it is the acquired file
VadIntermediates(f, l) ==
  IF l.vadProcessedPath # l.tempPath /\ Exists(f, l.vadProcessedPath)
  THEN {l.vadProcessedPath} ELSE {}

\* the media type a converted file is returned with
ConvertedMime == "audio/ogg"

\* convertToOggOpus(loc.input), and the return of the prepare function
Convert ==
  /\ pc = "convert"
  /\ LET outputPath == Path("gemini_converted_", now, S_ogg)
         inSize == IF Exists(fs, loc.input) THEN fs[loc.input] ELSE -1
     IN /\ trace' = Append(trace, Ev("ffmpeg", outputPath, loc.input, inSize, ""))
        /\ \/ \* spawn fails ('error' event)
              /\ Throw(Err("ToolUnavailable"))
              /\ UNCHANGED <<fs, audioInfo>>
           \/ \* non-zero exit, with or without a partial output
              /\ Throw(Err("TranscodeFailed"))
              /\ \E partial \in BOOLEAN :
                   fs' = IF partial THEN WriteFile(fs, outputPath, 0) ELSE fs
              /\ audioInfo' = audioInfo
           \/ /\ Exists(fs, loc.input)
              /\ \E out \in OutSizes :
                   LET written == WriteFile(fs, outputPath, out)
                   IN fs' = IF PrepKind(req.tool) = "vad"
                            THEN [q \in (DOMAIN written) \ VadIntermediates(written, loc)
                                    |-> written[q]]
                            ELSE written
              /\ audioInfo' = PreparedAudioInfo(outputPath, ConvertedMime, loc.tempPath)
              /\ pc' = "upload"
              /\ pending' = pending
  /\ UNCHANGED <<aux, req, now, loc, uploadedFileName, remote, response>>

\* processWithVad, step 1: convertToVadFormat(tempPath), outside its try block
VadConvert ==
  /\ pc = "vad_convert"
  /\ LET outputPath == Path("vad_input_", now, S_wav)
         inSize == IF Exists(fs, loc.tempPath) THEN fs[loc.tempPath] ELSE -1
     IN /\ trace' = Append(trace, Ev("ffmpeg", outputPath, loc.tempPath, inSize, ""))
        /\ \/ /\ Throw(Err("ToolUnavailable"))
              /\ UNCHANGED <<fs, loc>>
           \/ /\ Throw(Err("TranscodeFailed"))
              /\ \E partial \in BOOLEAN :
                   fs' = IF partial THEN WriteFile(fs, outputPath, 0) ELSE fs
              /\ loc' = loc
           \/ /\ Exists(fs, loc.tempPath)
              /\ \E out \in OutSizes : fs' = WriteFile(fs, outputPath, out)
              /\ loc' = [loc EXCEPT !.vadInputPath = outputPath]
              /\ pc' = "vad_run"
              /\ pending' = pending
  /\ UNCHANGED <<aux, req, now, audioInfo, uploadedFileName, remote, response>>

\* lengths in samples of a detected speech span
SegLens == {3}
\* Math.floor(sampleRate * 0.1) at 16 kHz
GapSamples == 1600
WavHeaderBytes == 44

RECURSIVE SumSeq(_)
SumSeq(s) == IF s = <<>> THEN 0 ELSE s[1] + SumSeq(Tail(s))

\* faulty variant: no fallback to the input when nothing was detected
VadResultPath_cleaned(inputPath, segments, ts) == Path("vad_cleaned_", ts, S_wav)

\* the path processWithVad returns for the detected spans
VadResultPath(inputPath, segments, ts) ==
  IF Len(segments) = 0 THEN inputPath ELSE Path("vad_cleaned_", ts, S_wav)

\* faulty variant: the zero-span return keeps the PCM file
RemovePcm_unlessSilent(f, vadInputPath, exit) ==
  IF exit = "silent" THEN f
  ELSE IF Exists(f, vadInputPath) THEN Unlink(f, vadInputPath)
  ELSE f

\* the unlinkSync(vadInputPath) of each exit of processWithVad: before
\* return inputPath ("silent"), before return vadOutputPath ("speech"), and
\* in the catch block when the file exists ("error")
RemovePcm(f, vadInputPath, exit) ==
  IF exit = "error" /\ ~Exists(f, vadInputPath) THEN f
  ELSE Unlink(f, vadInputPath)

\* processWithVad, steps 2-5, inside its try block
VadRun ==
  /\ pc = "vad_run"
  /\ \/ \* reading the WAV, loading the model or detection throws
        /\ fs' = RemovePcm(fs, loc.vadInputPath, "error")
        /\ Throw(Err("VadFailed"))
        /\ UNCHANGED <<loc, trace>>
     \/ \* writeFloat32AsWav throws, with or without a partial file
        /\ \E partial \in BOOLEAN :
             fs' = RemovePcm(IF partial
                             THEN WriteFile(fs, Path("vad_cleaned_", now, S_wav), 0)
                             ELSE fs,
                             loc.vadInputPath, "error")
        /\ Throw(Err("VadWriteFailed"))
        /\ UNCHANGED <<loc, trace>>
     \/ \E n \in 0..MaxSegments : \E segments \in [1..n -> SegLens] :
          LET result == VadResultPath(loc.tempPath, segments, now)
              totalLength == SumSeq(segments) + (Len(segments) - 1) * GapSamples
              bytes == WavHeaderBytes + 2 * totalLength
          IN /\ IF Len(segments) = 0
                THEN /\ fs' = RemovePcm(fs, loc.vadInputPath, "silent")
                     /\ trace' = trace
                ELSE /\ fs' = RemovePcm(WriteFile(fs, result, bytes),
                                        loc.vadInputPath, "speech")
                     /\ trace' = Append(trace, Ev("write", result, NoPath, bytes, ""))
             /\ loc' = [loc EXCEPT !.segments = segments,
                                   !.vadProcessedPath = result, !.input = result]
             /\ pc' = "convert"
             /\ pending' = pending
  /\ UNCHANGED <<aux, req, now, audioInfo, uploadedFileName, remote, response>>


-----------------------------------------------------------------------------
(* JavaScript values and texts.  A reply text is a sequence of one-character *)
(* strings.                                                                  *)

\* a JavaScript value as far as the code looks at it: its type and, for a
\* string or a number, its characters
JsVal(t, s) == [t |-> t, s |-> s]
Undefined == JsVal("undefined", <<>>)
Str(s) == JsVal("string", s)
Num(s) == JsVal("number", s)

\* the truthiness of a value (a || b, !text)
JsTruthy(v) ==
  CASE v.t \in {"undefined", "null"} -> FALSE
    [] v.t = "string" -> v.s # <<>>
    [] v.t = "number" -> v.s # <<"0">>
    [] OTHER -> TRUE

\* a || b
JsOr(a, b) == IF JsTruthy(a) THEN a ELSE b

WhiteSpace == {" ", "\n", "\t"}

\* String.prototype.trim
RECURSIVE Trim(_)
Trim(s) ==
  IF s = <<>> THEN s
  ELSE IF s[1] \in WhiteSpace THEN Trim(Tail(s))
  ELSE IF s[Len(s)] \in WhiteSpace THEN Trim(SubSeq(s, 1, Len(s) - 1))
  ELSE s

StartsWith(s, prefix) ==
  Len(s) >= Len(prefix) /\ SubSeq(s, 1, Len(prefix)) = prefix
EndsWith(s, suffix) ==
  Len(s) >= Len(suffix) /\ SubSeq(s, Len(s) - Len(suffix) + 1, Len(s)) = suffix
\* s.slice(n)
SliceFrom(s, n) == SubSeq(s, n + 1, Len(s))
\* s.slice(0, -n)
SliceOff(s, n) == SubSeq(s, 1, Len(s) - n)

\* the grave accent character (which a TLA+ string cannot hold)
Grave == "grave"
\* three grave accents, the marker of a code block
Fence == <<Grave, Grave, Grave>>
FenceJson == Fence \o <<"j", "s", "o", "n">>

-----------------------------------------------------------------------------
(* JSON.parse, over the documents of JsonValues in their compact form *)

\* the members of a reply object the code or the response can show
Fields == {"title", "description", "transcript", "format_applied"}

KeyChars(k) ==
  CASE k = "title" -> <<"t", "i", "t", "l", "e">>
    [] k = "description" ->
         <<"d", "e", "s", "c", "r", "i", "p", "t", "i", "o", "n">>
    [] k = "transcript" -> <<"t", "r", "a", "n", "s", "c", "r", "i", "p", "t">>
    [] k = "format_applied" ->
         <<"f", "o", "r", "m", "a", "t", "_", "a", "p", "p", "l", "i", "e", "d">>

\* a parsed JSON document: its type, its characters (string, number) and its
\* members (object; a missing member is Undefined)
JsonValue(t, s, members) == [t |-> t, s |-> s, fields |-> members]
NoMembers == [k \in Fields |-> Undefined]
JsonObject(title, description, transcript, format_applied) ==
  JsonValue("object", <<>>,
            [k \in Fields |->
               CASE k = "title" -> title
                 [] k = "description" -> description
                 [] k = "transcript" -> transcript
                 [] k = "format_applied" -> format_applied])

\* what JSON.parse throws
SyntaxError == JsonValue("SyntaxError", <<>>, NoMembers)

JsonObjects ==
  {JsonObject(Str(<<"T">>), Str(<<"D">>), Str(<<"X">>), Undefined),
   JsonObject(Str(<<"T">>), Str(<<"D">>), Str(<<"X">>), Str(<<"F">>)),
   JsonObject(Undefined, Undefined, Undefined, Undefined),
   JsonObject(Str(<<"T">>), Undefined, Undefined, Undefined),
   JsonObject(Str(<<>>), Str(<<"D">>), Str(<<"X">>), Undefined),
   JsonObject(Num(<<"5">>), Str(<<"D">>), Str(<<"X">>), Undefined)}

JsonValues ==
  JsonObjects \cup
  {JsonValue("null", <<>>, NoMembers),
   JsonValue("number", <<"5">>, NoMembers),
   JsonValue("string", <<"h", "i">>, NoMembers),
   JsonValue("array", <<>>, NoMembers)}

Quoted(s) == <<"\"">> \o s \o <<"\"">>

\* the JSON text of a member value
MemberText(v) == IF v.t = "string" THEN Quoted(v.s) ELSE v.s

\* the members of an object that are present, in the order of the text
KeyOrder == <<"title", "description", "transcript", "format_applied">>
RECURSIVE MembersText(_, _, _)
MembersText(members, i, first) ==
  IF i > Len(KeyOrder) THEN <<>>
  ELSE IF members[KeyOrder[i]] = Undefined
  THEN MembersText(members, i + 1, first)
  ELSE (IF first THEN <<>> ELSE <<",">>)
       \o Quoted(KeyChars(KeyOrder[i])) \o <<":">>
       \o MemberText(members[KeyOrder[i]])
       \o MembersText(members, i + 1, FALSE)

\* the compact JSON text of a document
JsonText(v) ==
  CASE v.t = "null" -> <<"n", "u", "l", "l">>
    [] v.t = "number" -> v.s
    [] v.t = "string" -> Quoted(v.s)
    [] v.t = "array" -> <<"[", "]">>
    [] v.t = "object" -> <<"{">> \o MembersText(v.fields, 1, TRUE) \o <<"}">>

\* JSON.parse(text): the document the text denotes, SyntaxError when none
JsonParse(text) ==
  IF \E v \in JsonValues : JsonText(v) = text
  THEN CHOOSE v \in JsonValues : JsonText(v) = text
  ELSE SyntaxError

-----------------------------------------------------------------------------
(* transcribe.ts: parseJsonResponse and the construction of the result *)

VoiceNote == <<"V", "o", "i", "c", "e", " ", "N", "o", "t", "e">>
GenericDescription ==
  <<"T", "r", "a", "n", "s", "c", "r", "i", "b", "e", "d", " ",
    "v", "o", "i", "c", "e", " ", "n", "o", "t", "e", ".">>

\* the code-block markers parseJsonResponse removes from the trimmed text
StripFence(cleaned) ==
  LET opened == IF StartsWith(cleaned, FenceJson) THEN SliceFrom(cleaned, 7)
                ELSE IF StartsWith(cleaned, Fence) THEN SliceFrom(cleaned, 3)
                ELSE cleaned
  IN IF EndsWith(opened, Fence) THEN SliceOff(opened, 3) ELSE opened

\* faulty variant: the fallback carries the cleaned text
Fallback_cleaned(text) ==
  JsonObject(Str(VoiceNote), Str(GenericDescription),
             Str(Trim(StripFence(Trim(text)))), Undefined)

\* the object the catch block of parseJsonResponse returns
Fallback(text) ==
  JsonObject(Str(VoiceNote), Str(GenericDescription), Str(text), Undefined)

parseJsonResponse(text) ==
  LET cleaned == Trim(StripFence(Trim(text)))
      parsed == JsonParse(cleaned)
  IN IF parsed = SyntaxError THEN Fallback(text) ELSE parsed

\* parsed.title, parsed.description, ... (undefined on a number, a string or
\* an array; on null the access throws)
Member(parsed, k) == IF parsed.t = "object" THEN parsed.fields[k] ELSE Undefined

\* the fields of the object transcribeAudio returns
ResultKeys ==
  {"title", "description", "transcript", "timestamp", "timestamp_readable"}

\* formatTimestamp() at clock value ts
Timestamp(ts) == Str(<<ToString(ts)>>)

\* a returned TranscriptionResponse
Result(v) == [kind |-> "result", code |-> "", mb |-> 0, value |-> v]

\* the return statement of the try block: parsed.title || 'Voice Note', ...
\* (a TypeError when parsed is null)
ResultOf(parsed, text, ts) ==
  IF parsed.t = "null" THEN Err("TypeError")
  ELSE Result([k \in ResultKeys |->
                 CASE k = "title" -> JsOr(Member(parsed, "title"), Str(VoiceNote))
                   [] k = "description" ->
                        JsOr(Member(parsed, "description"), Str(GenericDescription))
                   [] k = "transcript" ->
                        JsOr(Member(parsed, "transcript"), Str(text))
                   [] OTHER -> Timestamp(ts)])

-----------------------------------------------------------------------------
(* transcribe.ts: upload, poll, generate *)

FileHandle == "files/1"

\* fs.readFileSync(audioInfo.processedPath) and ai.files.upload
Upload ==
  /\ pc = "upload"
  /\ IF ~Exists(fs, audioInfo.processedPath)
     THEN /\ Throw(Err("ReadFailed"))
          /\ UNCHANGED <<trace, uploadedFileName, remote>>
     ELSE /\ trace' = Append(trace, Ev("upload", audioInfo.processedPath, NoPath,
                                       fs[audioInfo.processedPath], audioInfo.mimeType))
          /\ \/ /\ Throw(Err("UploadFailed"))
                /\ UNCHANGED <<uploadedFileName, remote>>
             \/ /\ uploadedFileName' = FileHandle
                /\ remote' = "PROCESSING"
                /\ pc' = "poll"
                /\ pending' = pending
  /\ UNCHANGED <<aux, req, now, fs, loc, audioInfo, response>>

\* the trace with event e added; a status poll that repeats the previous
\* event (the loop of waitForFileProcessing going round) is recorded once
Logged(t, e) == IF t # <<>> /\ t[Len(t)] = e THEN t ELSE Append(t, e)

\* waitForFileProcessing: one ai.files.get and the test of file.state
Poll ==
  /\ pc = "poll"
  /\ \/ \* ai.files.get rejects
        /\ Throw(Err("StatusFailed"))
        /\ trace' = Append(trace, Ev("poll", NoPath, NoPath, 0, "rejected"))
        /\ remote' = remote
     \/ \E state \in {"PROCESSING", "ACTIVE", "FAILED"} :
          /\ trace' = Logged(trace, Ev("poll", NoPath, NoPath, 0, state))
          /\ remote' = state
          /\ IF state = "PROCESSING" THEN UNCHANGED <<pc, pending>>
             ELSE IF state = "FAILED" THEN Throw(Err("RemoteProcessingFailed"))
             ELSE pc' = "get" /\ pending' = pending
  /\ UNCHANGED <<aux, req, now, fs, loc, audioInfo, uploadedFileName, response>>

\* const uploadedFile = await ai.files.get(...)
GetFile ==
  /\ pc = "get"
  /\ trace' = Append(trace, Ev("get", NoPath, NoPath, 0, ""))
  /\ \/ Throw(Err("StatusFailed"))
     \/ pc' = "generate" /\ pending' = pending
  /\ UNCHANGED <<aux, req, now, fs, loc, audioInfo, uploadedFileName, remote,
                 response>>

Sorry == <<"S", "o", "r", "r", "y">>

\* what result.text may be: nothing, a JSON object without and with
\* format_applied, the JSON text null, or text that is not JSON
Replies ==
  {<<>>,
   JsonText(JsonObject(Str(<<"T">>), Str(<<"D">>), Str(<<"X">>), Undefined)),
   JsonText(JsonObject(Str(<<"T">>), Str(<<"D">>), Str(<<"X">>), Str(<<"F">>))),
   JsonText(JsonValue("null", <<>>, NoMembers)),
   Sorry}

\* faulty variant: an empty reply is parsed like any other
Transcribed_unchecked(text, ts) == ResultOf(parseJsonResponse(text), text, ts)

\* the completion of the try block for a reply: the empty-text check,
\* parseJsonResponse and the construction of the result
Transcribed(text, ts) ==
  IF ~Truthy(text) THEN Err("EmptyResponse")
  ELSE ResultOf(parseJsonResponse(text), text, ts)

\* ai.models.generateContent and the rest of the try block
Generate ==
  /\ pc = "generate"
  /\ trace' = Append(trace,
       Ev("generate", NoPath, NoPath, 0,
          PromptToUse(SelectPrompt(req.tool, req.custom_prompt, req.format,
                                   req.raw)).kind))
  /\ \/ Throw(Err("GenerateFailed"))
     \/ \E text \in Replies : Throw(Transcribed(text, now))
  /\ UNCHANGED <<aux, req, now, fs, loc, audioInfo, uploadedFileName, remote,
                 response>>

-----------------------------------------------------------------------------
(* The finally block *)

\* the outcome of a function over the temp directory: the files left and the
\* exception that left the function ("" is none)
Outcome(f) == [files |-> f, error |-> ""]

\* faulty variant: the exception of unlinkSync leaves the function
TryUnlink_uncaught(r, p, failing) ==
  IF r.error # "" THEN r
  ELSE IF p \in failing THEN [r EXCEPT !.error = "UnlinkFailed"]
  ELSE [r EXCEPT !.files = Unlink(@, p)]

\* try { fs.unlinkSync(p) } catch {}, where unlinkSync throws for the paths of
\* failing and removes any other
TryUnlink(r, p, failing) ==
  IF p \in failing THEN r ELSE [r EXCEPT !.files = Unlink(@, p)]

\* faulty variant: needsCleanup is not consulted
cleanupTempFilesUnder_unasked(f, fileInfo, failing) ==
  LET r1 == IF Exists(f, fileInfo.processedPath)
            THEN TryUnlink(Outcome(f), fileInfo.processedPath, failing)
            ELSE Outcome(f)
  IN IF fileInfo.originalPath # fileInfo.processedPath
        /\ Exists(r1.files, fileInfo.originalPath)
     THEN TryUnlink(r1, fileInfo.originalPath, failing) ELSE r1

\* audio.ts cleanupTempFiles in a temp directory where unlinkSync throws for
\* the paths of failing
cleanupTempFilesUnder(f, fileInfo, failing) ==
  IF fileInfo.needsCleanup
  THEN LET r1 == IF Exists(f, fileInfo.processedPath)
                 THEN TryUnlink(Outcome(f), fileInfo.processedPath, failing)
                 ELSE Outcome(f)
       IN IF r1.error = "" /\ fileInfo.originalPath # fileInfo.processedPath
             /\ Exists(r1.files, fileInfo.originalPath)
          THEN TryUnlink(r1, fileInfo.originalPath, failing) ELSE r1
  ELSE Outcome(f)

\* faulty variant: only the processed file is removed
cleanupTempFiles_processedOnly(f, fileInfo) ==
  IF fileInfo.needsCleanup /\ Exists(f, fileInfo.processedPath)
  THEN Unlink(f, fileInfo.processedPath) ELSE f

\* audio.ts cleanupTempFiles: the temp directory after cleanup
cleanupTempFiles(f, fileInfo) ==
  IF fileInfo.needsCleanup
  THEN LET f1 == IF Exists(f, fileInfo.processedPath)
                 THEN Unlink(f, fileInfo.processedPath) ELSE f
       IN IF fileInfo.originalPath # fileInfo.processedPath
             /\ Exists(f1, fileInfo.originalPath)
          THEN Unlink(f1, fileInfo.originalPath) ELSE f1
  ELSE f

\* if (audioInfo) cleanupTempFiles(audioInfo)
FinallyCleanup ==
  /\ pc = "finally"
  /\ IF audioInfo.set
     THEN /\ fs' = cleanupTempFiles(fs, audioInfo)
          /\ trace' = Append(trace, Ev("cleanup", audioInfo.processedPath,
                                       audioInfo.originalPath, 0, ""))
     ELSE UNCHANGED <<fs, trace>>
  /\ pc' = "release"
  /\ UNCHANGED <<aux, req, now, loc, audioInfo, uploadedFileName, remote, pending,
                 response>>

\* faulty variant: a rejected delete is not caught
AfterDelete_uncaught(completion, deleted) ==
  IF deleted THEN completion ELSE Err("DeleteFailed")

\* the completion of the function after ai.files.delete settled: a rejected
\* delete is caught and ignored
AfterDelete(completion, deleted) == completion

\* if (uploadedFileName) try { await ai.files.delete(...) } catch {}
FinallyDelete ==
  /\ pc = "release"
  /\ IF uploadedFileName # ""
     THEN \E deleted \in BOOLEAN :
            /\ trace' = Append(trace, Ev("delete", NoPath, NoPath, 0,
                                         IF deleted THEN "deleted" ELSE "rejected"))
            /\ remote' = IF deleted THEN "deleted" ELSE remote
            /\ pending' = AfterDelete(pending, deleted)
     ELSE UNCHANGED <<trace, remote, pending>>
  /\ pc' = "return"
  /\ UNCHANGED <<aux, req, now, fs, loc, audioInfo, uploadedFileName, response>>

-----------------------------------------------------------------------------
(* index.ts: the handler after the transcribe function settled *)

\* output_dir of the call ('' is not given) and the DEFAULT_OUTPUT_DIR the
\* process started with ('' is undefined); neither is read before this point
OutputDirs == {<<>>, <<"o", "u", "t">>}
DefaultOutputDirs == {<<>>, <<".", "/", "t", "r", "a", "n", "s", "c", "r", "i", "p", "t", "s">>}

\* outputDir || DEFAULT_OUTPUT_DIR
EffectiveOutputDir(outputDir, defaultDir) ==
  IF Truthy(outputDir) THEN outputDir ELSE defaultDir

\* faulty variant: a failed save returns the result without saved_to
AfterSave_unsaved(completion, written) == Reply(completion, written)

\* the reply after the save was tried: the result with saved_to, or the catch
\* block's message for the Error of mkdirSync or writeFileSync
AfterSave(completion, written) ==
  IF written THEN Reply(completion, TRUE) ELSE Caught(Err("SaveFailed"))

\* the catch block for a thrown Error; otherwise the optional save of the
\* transcript (mkdirSync and writeFileSync may throw) and the response
Respond ==
  /\ pc = "return"
  /\ IF pending.kind = "error"
     THEN response' = Caught(pending) /\ trace' = trace
     ELSE \E outputDir \in OutputDirs, defaultDir \in DefaultOutputDirs :
            LET effectiveOutputDir == EffectiveOutputDir(outputDir, defaultDir)
            IN IF ~Truthy(effectiveOutputDir)
               THEN response' = Reply(pending, FALSE) /\ trace' = trace
               ELSE \E written \in BOOLEAN :
                      /\ response' = AfterSave(pending, written)
                      /\ trace' = Append(trace, Ev("save", NoPath, NoPath, 0,
                                       IF written THEN "written" ELSE "rejected"))
  /\ pc' = "done"
  /\ UNCHANGED <<aux, req, now, fs, loc, audioInfo, uploadedFileName, remote,
                 pending>>

-----------------------------------------------------------------------------

Next ==
  \/ Tick
  \/ Dispatch
  \/ EntryNoApiKey
  \/ Entry
  \/ AcquireInline
  \/ FetchUrl
  \/ Download
  \/ Scp
  \/ NoSource
  \/ SizeGate
  \/ Convert
  \/ VadConvert
  \/ VadRun
  \/ Upload
  \/ Poll
  \/ GetFile
  \/ Generate
  \/ FinallyCleanup
  \/ FinallyDelete
  \/ Respond

Spec == Init /\ [][Next]_vars

-----------------------------------------------------------------------------
(* The reply texts parseJsonResponse and the result construction are         *)
(* applied to: a body, alone or inside code-block markers, with or without   *)
(* surrounding white space                                                   *)

NonJsonBodies == {<<>>, Sorry, <<"{", "\"", "T">>, <<"n", "u", "l">>}
Bodies == {JsonText(v) : v \in JsonValues} \cup NonJsonBodies

NL == <<"\n">>
Wraps ==
  {"none", "bare", "bare_nl", "json", "json_nl", "js_nl", "JSON_nl",
   "open", "close"}

\* the body inside the markers of a code block
Wrap(w, body) ==
  CASE w = "none" -> body
    [] w = "bare" -> Fence \o body \o Fence
    [] w = "bare_nl" -> Fence \o NL \o body \o NL \o Fence
    [] w = "json" -> FenceJson \o body \o Fence
    [] w = "json_nl" -> FenceJson \o NL \o body \o NL \o Fence
    [] w = "js_nl" -> Fence \o <<"j", "s">> \o NL \o body \o NL \o Fence
    [] w = "JSON_nl" ->
         Fence \o <<"J", "S", "O", "N">> \o NL \o body \o NL \o Fence
    [] w = "open" -> FenceJson \o NL \o body
    [] w = "close" -> body \o NL \o Fence

Pads == {"none", "ws"}
Pad(p, text) == IF p = "ws" THEN <<" ">> \o text \o <<" ", "\n">> ELSE text

InitParse ==
  /\ IdleCall
  /\ sel = Idle /\ conc = Idle
  /\ save = Idle /\ sess = Idle /\ cls = Idle
  /\ fin = Idle /\ proc = Idle /\ splice = Idle /\ saves = Idle
  /\ \E body \in Bodies, w \in Wraps, p \in Pads :
       parse = [stage |-> "text", body |-> body, wrap |-> w, pad |-> p,
                text |-> Pad(p, Wrap(w, body)),
                parsed |-> SyntaxError, out |-> NoCompletion]

\* transcribeAudio: if (!text) throw ...; const parsed = parseJsonResponse(text)
ParseReply ==
  /\ parse.stage = "text"
  /\ parse' = IF ~Truthy(parse.text)
              THEN [parse EXCEPT !.stage = "built",
                                 !.out = Err("EmptyResponse")]
              ELSE [parse EXCEPT !.stage = "parsed",
                                 !.parsed = parseJsonResponse(parse.text)]
  /\ UNCHANGED <<callVars, sel, conc, save, sess, cls, units>>

\* transcribeAudio: the return statement
BuildResult ==
  /\ parse.stage = "parsed"
  /\ parse' = [parse EXCEPT !.stage = "built",
                            !.out = ResultOf(parse.parsed, parse.text, now)]
  /\ UNCHANGED <<callVars, sel, conc, save, sess, cls, units>>

NextParse ==
  \/ ParseReply
  \/ BuildResult

SpecParse == InitParse /\ [][NextParse]_vars

-----------------------------------------------------------------------------
(* index.ts: the handler's validation and its choice of transcribe function  *)
(* and instruction, for every combination of tool and parameters             *)

Calls ==
  [tool : ToolNames, hasSource : BOOLEAN, custom_prompt : Texts,
   format : Texts, raw : BOOLEAN]

InitSelect ==
  /\ IdleCall
  /\ parse = Idle /\ conc = Idle
  /\ save = Idle /\ sess = Idle /\ cls = Idle
  /\ fin = Idle /\ proc = Idle /\ splice = Idle /\ saves = Idle
  /\ \E c \in Calls :
       sel = [stage |-> "call", call |-> c, error |-> "", fn |-> "",
              prompt |-> NoPrompt]

\* the checks before the try block
ValidateCall ==
  /\ sel.stage = "call"
  /\ LET e == ValidationError(sel.call.tool, sel.call.hasSource,
                              sel.call.custom_prompt, sel.call.format)
     IN sel' = [sel EXCEPT !.stage = IF e # "" THEN "rejected" ELSE "valid",
                           !.error = e]
  /\ UNCHANGED <<callVars, parse, conc, save, sess, cls, units>>

\* the choice of customPrompt and transcribeFn, and the prompt the chosen
\* function sends
SelectCall ==
  /\ sel.stage = "valid"
  /\ sel' = [sel EXCEPT
       !.stage = "selected",
       !.fn = PrepKind(sel.call.tool),
       !.prompt = PromptToUse(SelectPrompt(sel.call.tool,
                                           sel.call.custom_prompt,
                                           sel.call.format, sel.call.raw))]
  /\ UNCHANGED <<callVars, parse, conc, save, sess, cls, units>>

NextSelect ==
  \/ ValidateCall
  \/ SelectCall

SpecSelect == InitSelect /\ [][NextSelect]_vars

-----------------------------------------------------------------------------
(* Two invocations the host dispatched concurrently: their handlers          *)
(* interleave at every await and share os.tmpdir() and Date.now().  Each     *)
(* brings an inline payload below the downsample threshold; conc.tmp maps an *)
(* existing path to the invocation its bytes come from.                      *)

Invocations == {1, 2}
PairKinds == {"standard", "compressed", "vad"}
PairNames == {<<>>, <<"a", ".", "W", "A", "V">>}

\* the locals of one invocation
NewCall(kind, name) ==
  [pc |-> "prepare", kind |-> kind, name |-> name, tempPath |-> NoPath,
   input |-> NoPath, vadInputPath |-> NoPath, vadProcessedPath |-> NoPath,
   segments |-> <<>>, info |-> NoAudio, uploaded |-> 0, lost |-> FALSE]

InitPair ==
  /\ IdleCall
  /\ parse = Idle /\ sel = Idle
  /\ save = Idle /\ sess = Idle /\ cls = Idle
  /\ fin = Idle /\ proc = Idle /\ splice = Idle /\ saves = Idle
  /\ \E calls \in [Invocations -> {NewCall(k, n) : k \in PairKinds,
                                                    n \in PairNames}] :
       conc = [stage |-> "pair", clock |-> 0, tmp |-> EmptyFs, calls |-> calls]

\* conc with the temp directory and the locals of invocation i replaced
Stepped(i, tmp, call) ==
  [conc EXCEPT !.tmp = tmp, !.calls = [conc.calls EXCEPT ![i] = call]]

\* an Error inside prepare or the upload: the finally block is next
Failed(call, lost) == [call EXCEPT !.pc = "finally", !.lost = lost]

PairTick ==
  /\ conc.clock < MaxTick
  /\ \E i \in Invocations : conc.calls[i].pc # "done"
  /\ conc' = [conc EXCEPT !.clock = conc.clock + 1]
  /\ UNCHANGED <<callVars, parse, sel, save, sess, cls, units>>

\* the write of the decoded payload, and for standard preparation the
\* decision on the classified type
PairAcquire(i) ==
  LET c == conc.calls[i]
      tempPath == Path(UploadPrefix(c.kind), conc.clock,
                       IF Truthy(c.name) THEN c.name ELSE S_audio)
      mime == getMimeTypeFromNameOrType(c.name, "")
      asIs == c.kind = "standard" /\ UseAsIs(mime, 0)
  IN /\ c.pc = "prepare"
     /\ conc' = Stepped(i, WriteFile(conc.tmp, tempPath, i),
          [c EXCEPT !.tempPath = tempPath, !.input = tempPath,
                    !.info = IF asIs
                             THEN PreparedAudioInfo(tempPath, mime, tempPath)
                             ELSE NoAudio,
                    !.pc = IF asIs THEN "upload"
                           ELSE IF c.kind = "vad" THEN "vad_convert"
                           ELSE "convert"])
     /\ UNCHANGED <<callVars, parse, sel, save, sess, cls, units>>

\* convertToVadFormat
PairVadConvert(i) ==
  LET c == conc.calls[i]
      outputPath == Path("vad_input_", conc.clock, S_wav)
  IN /\ c.pc = "vad_convert"
     /\ conc' = IF Exists(conc.tmp, c.tempPath)
                THEN Stepped(i, WriteFile(conc.tmp, outputPath,
                                          conc.tmp[c.tempPath]),
                             [c EXCEPT !.vadInputPath = outputPath,
                                       !.pc = "vad_run"])
                ELSE Stepped(i, conc.tmp, Failed(c, TRUE))
     /\ UNCHANGED <<callVars, parse, sel, save, sess, cls, units>>

\* processWithVad after the conversion
PairVadRun(i) ==
  LET c == conc.calls[i]
  IN /\ c.pc = "vad_run"
     /\ IF ~Exists(conc.tmp, c.vadInputPath)
        THEN conc' = Stepped(i, conc.tmp, Failed(c, TRUE))
        ELSE \E n \in 0..1 : \E segments \in [1..n -> SegLens] :
               LET result == VadResultPath(c.tempPath, segments, conc.clock)
                   written == IF Len(segments) = 0 THEN conc.tmp
                              ELSE WriteFile(conc.tmp, result,
                                             conc.tmp[c.vadInputPath])
               IN conc' = Stepped(i, Unlink(written, c.vadInputPath),
                            [c EXCEPT !.segments = segments,
                                      !.vadProcessedPath = result,
                                      !.input = result, !.pc = "convert"])
     /\ UNCHANGED <<callVars, parse, sel, save, sess, cls, units>>

\* convertToOggOpus (ffmpeg -y overwrites an existing output) and the return
\* of the prepare function
PairConvert(i) ==
  LET c == conc.calls[i]
      outputPath == Path("gemini_converted_", conc.clock, S_ogg)
  IN /\ c.pc = "convert"
     /\ conc' =
          IF Exists(conc.tmp, c.input)
          THEN LET written == WriteFile(conc.tmp, outputPath, conc.tmp[c.input])
                   kept == IF c.kind = "vad"
                           THEN [q \in (DOMAIN written)
                                         \ VadIntermediates(written, c)
                                   |-> written[q]]
                           ELSE written
               IN Stepped(i, kept,
                          [c EXCEPT !.info = PreparedAudioInfo(outputPath,
                                               ConvertedMime, c.tempPath),
                                    !.pc = "upload"])
          ELSE Stepped(i, conc.tmp, Failed(c, TRUE))
     /\ UNCHANGED <<callVars, parse, sel, save, sess, cls, units>>

\* fs.readFileSync(audioInfo.processedPath) and everything up to the end of
\* the try block
PairUpload(i) ==
  LET c == conc.calls[i]
  IN /\ c.pc = "upload"
     /\ conc' = IF Exists(conc.tmp, c.info.processedPath)
                THEN Stepped(i, conc.tmp,
                             [c EXCEPT !.uploaded = conc.tmp[c.info.processedPath],
                                       !.pc = "finally"])
                ELSE Stepped(i, conc.tmp, Failed(c, TRUE))
     /\ UNCHANGED <<callVars, parse, sel, save, sess, cls, units>>

\* the finally block: if (audioInfo) cleanupTempFiles(audioInfo)
PairFinally(i) ==
  LET c == conc.calls[i]
  IN /\ c.pc = "finally"
     /\ conc' = Stepped(i, IF c.info.set THEN cleanupTempFiles(conc.tmp, c.info)
                           ELSE conc.tmp,
                        [c EXCEPT !.pc = "done"])
     /\ UNCHANGED <<callVars, parse, sel, save, sess, cls, units>>

NextPair ==
  \/ PairTick
  \/ \E i \in Invocations : PairAcquire(i)
  \/ \E i \in Invocations : PairVadConvert(i)
  \/ \E i \in Invocations : PairVadRun(i)
  \/ \E i \in Invocations : PairConvert(i)
  \/ \E i \in Invocations : PairUpload(i)
  \/ \E i \in Invocations : PairFinally(i)

SpecPair == InitPair /\ [][NextPair]_vars


-----------------------------------------------------------------------------
(* index.ts: DEFAULT_OUTPUT_DIR, slugify and the handler's save of a         *)
(* returned result, for every output_dir, TRANSCRIPT_OUTPUT_DIR setting and  *)
(* title                                                                     *)

Digits == {"0", "1", "2", "3", "4", "5", "6", "7", "8", "9"}
\* the characters the class \w matches
WordChars ==
  {Upper[i] : i \in 1..26} \cup {Lower[i] : i \in 1..26} \cup Digits \cup {"_"}

\* s.replace(/[^\w\s-]/g, '')
RemoveOthers(s) ==
  SelectSeq(s, LAMBDA c : c \in WordChars \cup WhiteSpace \cup {"-"})

\* s.replace(/\s+/g, '-') and s.replace(/-+/g, '-'): every maximal run of
\* characters of the class becomes one hyphen (the last character of a run
\* turns into the hyphen, the others go)
ReplaceRuns(s, class) ==
  LET marked == [i \in 1..Len(s) |->
                   IF s[i] \notin class THEN s[i]
                   ELSE IF i < Len(s) /\ s[i + 1] \in class THEN "gone"
                   ELSE "-"]
  IN SelectSeq(marked, LAMBDA c : c # "gone")

\* s.substring(0, n)
Substring(s, n) == SubSeq(s, 1, IF Len(s) < n THEN Len(s) ELSE n)

\* faulty variant: the characters outside the three classes stay
slugify_kept(text) ==
  Substring(Trim(ReplaceRuns(ReplaceRuns(ToLowerCase(text), WhiteSpace),
                             {"-"})), 80)

slugify(text) ==
  Substring(Trim(ReplaceRuns(ReplaceRuns(RemoveOthers(ToLowerCase(text)),
                                         WhiteSpace), {"-"})), 80)

\* process.env as far as the handler reads it
NoEnv == [k \in {} |-> <<>>]
S_transcripts == <<".", "/", "t", "r", "a", "n", "s", "c", "r", "i", "p", "t", "s">>
S_notes == <<"n", "o", "t", "e", "s">>
EnvSettings ==
  {NoEnv, [TRANSCRIPT_OUTPUT_DIR |-> <<>>], [TRANSCRIPT_OUTPUT_DIR |-> S_notes]}

\* faulty variant: nothing is saved by default
DEFAULT_OUTPUT_DIR_unset(env) ==
  IF "TRANSCRIPT_OUTPUT_DIR" \in DOMAIN env THEN env.TRANSCRIPT_OUTPUT_DIR
  ELSE <<>>

\* the module constant ('' || undefined is the empty sequence)
DEFAULT_OUTPUT_DIR(env) ==
  IF "TRANSCRIPT_OUTPUT_DIR" \in DOMAIN env THEN env.TRANSCRIPT_OUTPUT_DIR
  ELSE S_transcripts

\* path.join(dir, name) for a relative dir without '..': a leading './' goes
PathJoin(dir, name) ==
  LET d == IF StartsWith(dir, <<".", "/">>) THEN SliceFrom(dir, 2) ELSE dir
  IN d \o <<"/">> \o name

S_out == <<"o", "u", "t">>
S_md == <<".", "m", "d">>
S_transcript == <<"t", "r", "a", "n", "s", "c", "r", "i", "p", "t">>

\* n copies of character c
Repeat(c, n) == [i \in 1..n |-> c]

MeetingNotes ==
  <<"M", "e", "e", "t", "i", "n", "g", " ", "N", "o", "t", "e", "s", ":", " ",
    "Q", "3", " ", "R", "e", "v", "i", "e", "w", "!">>
\* the titles a result can carry: text with punctuation, white-space and
\* hyphen runs, path separators, more than 80 characters, or a number
Titles ==
  {Str(MeetingNotes),
   Str(<<"a", " ", " ", "b", "\t", "c">>),
   Str(<<"-", "-", "A", " ", "-", " ", "b", "-", "-">>),
   Str(<<".", ".", "/", "E", "_", "1", "/", "x">>),
   Str(Repeat("a", 79) \o <<" ", " ", "b", "c">>),
   Num(<<"5">>)}

\* what transcribeFn returned, with the given title
SaveResult(title) ==
  [k \in ResultKeys |-> IF k = "title" THEN title ELSE Str(<<"x">>)]

\* faulty variant: the path is left out of the response
SaveReply_bare(result, savedFilePath) ==
  [kind |-> "result", code |-> "", value |-> result]

\* savedFilePath ? { ...result, saved_to: savedFilePath } : result
SaveReply(result, savedFilePath) ==
  [kind |-> "result", code |-> "",
   value |-> IF Truthy(savedFilePath)
             THEN ("saved_to" :> Str(savedFilePath)) @@ result
             ELSE result]

\* the catch block's reply
SaveError(code) == [kind |-> "error", code |-> code, value |-> NoValue]
NoSaveReply == [kind |-> "none", code |-> "", value |-> NoValue]

InitSave ==
  /\ IdleCall
  /\ parse = Idle /\ sel = Idle /\ conc = Idle /\ sess = Idle /\ cls = Idle
  /\ fin = Idle /\ proc = Idle /\ splice = Idle /\ saves = Idle
  /\ \E outputDir \in OutputDirs, env \in EnvSettings, title \in Titles,
        dirs \in {{}, {S_out, S_transcripts, S_notes}} :
       save = [stage |-> "result", outputDir |-> outputDir, env |-> env,
               result |-> SaveResult(title), dirs |-> dirs, files |-> {},
               effectiveOutputDir |-> <<>>, slug |-> <<>>,
               savedFilePath |-> <<>>, made |-> {}, response |-> NoSaveReply]

\* index.ts 516-523: the directory in effect, the slug and the path
SaveBegin ==
  /\ save.stage = "result"
  /\ LET effectiveOutputDir ==
           EffectiveOutputDir(save.outputDir, DEFAULT_OUTPUT_DIR(save.env))
         title == JsOr(save.result["title"], Str(S_transcript))
     IN IF ~Truthy(effectiveOutputDir)
        THEN save' = [save EXCEPT !.stage = "respond"]
        ELSE IF title.t # "string"
        THEN \* text.toLowerCase is not a function
             save' = [save EXCEPT !.stage = "done",
                                  !.effectiveOutputDir = effectiveOutputDir,
                                  !.response = SaveError("TypeError")]
        ELSE save' = [save EXCEPT
                        !.stage = IF effectiveOutputDir \in save.dirs
                                  THEN "write" ELSE "mkdir",
                        !.effectiveOutputDir = effectiveOutputDir,
                        !.slug = slugify(title.s),
                        !.savedFilePath =
                           PathJoin(effectiveOutputDir, slugify(title.s) \o S_md)]
  /\ UNCHANGED <<callVars, parse, sel, conc, sess, cls, units>>

\* index.ts 536-538: fs.mkdirSync, which may throw
SaveMkdir ==
  /\ save.stage = "mkdir"
  /\ \/ save' = [save EXCEPT !.stage = "write",
                             !.dirs = @ \cup {save.effectiveOutputDir},
                             !.made = @ \cup {save.effectiveOutputDir}]
     \/ save' = [save EXCEPT !.stage = "done",
                             !.response = SaveError("MkdirFailed")]
  /\ UNCHANGED <<callVars, parse, sel, conc, sess, cls, units>>

\* index.ts 540: fs.writeFileSync, which may throw
SaveWrite ==
  /\ save.stage = "write"
  /\ \/ save' = [save EXCEPT !.stage = "respond",
                             !.files = @ \cup {save.savedFilePath}]
     \/ save' = [save EXCEPT !.stage = "done",
                             !.response = SaveError("WriteFailed")]
  /\ UNCHANGED <<callVars, parse, sel, conc, sess, cls, units>>

\* index.ts 544-555: the response
SaveRespond ==
  /\ save.stage = "respond"
  /\ save' = [save EXCEPT !.stage = "done",
                          !.response = SaveReply(save.result, save.savedFilePath)]
  /\ UNCHANGED <<callVars, parse, sel, conc, sess, cls, units>>

NextSave ==
  \/ SaveBegin
  \/ SaveMkdir
  \/ SaveWrite
  \/ SaveRespond

SpecSave == InitSave /\ [][NextSave]_vars

-----------------------------------------------------------------------------
(* audio.ts: getMimeTypeFromNameOrType and isGeminiNativeFormat, for every   *)
(* pair of a declared name and a content type                                *)

\* declared names: known and unknown extensions in either case, no extension,
\* a dot file, a directory with a dot, no name
ClassNames ==
  {<<>>,
   <<"a", ".", "w", "a", "v">>,
   <<"a", ".", "W", "A", "V">>,
   <<"a", ".", "M", "p", "3">>,
   <<"a", ".", "m", "4", "a">>,
   <<"a", ".", "s", "p", "x">>,
   <<"a", ".", "t", "x", "t">>,
   <<"a", ".", "o", "g", "g", ".", "z", "i", "p">>,
   <<"n", "o", "t", "e">>,
   <<".", "f", "l", "a", "c">>,
   <<"d", ".", "w", "a", "v", "/", "n", "o", "t", "e">>}

\* content types: none, the five synonyms, canonical types, types the table
\* lacks, and a name every object inherits
ClassTypes ==
  {"", "audio/wave", "audio/x-wav", "audio/x-flac", "audio/x-aiff",
   "audio/x-m4a", "audio/wav", "audio/mpeg", "audio/mp3", "audio/webm",
   "audio/x-caf", "text/html", "application/octet-stream", "Audio/WAV",
   "constructor"}

InitClassify ==
  /\ IdleCall
  /\ parse = Idle /\ sel = Idle /\ conc = Idle /\ save = Idle /\ sess = Idle
  /\ fin = Idle /\ proc = Idle /\ splice = Idle /\ saves = Idle
  /\ \E fileName \in ClassNames, contentType \in ClassTypes :
       cls = [stage |-> "input", fileName |-> fileName,
              contentType |-> contentType, mimeType |-> "", native |-> FALSE]

\* const mimeType = getMimeTypeFromNameOrType(name, contentType), then
\* isGeminiNativeFormat(mimeType)
Classify ==
  /\ cls.stage = "input"
  /\ LET mimeType == getMimeTypeFromNameOrType(cls.fileName, cls.contentType)
     IN cls' = [cls EXCEPT !.stage = "done", !.mimeType = mimeType,
                           !.native = isGeminiNativeFormat(mimeType)]
  /\ UNCHANGED <<callVars, parse, sel, conc, save, sess, units>>

NextClassify == Classify

SpecClassify == InitClassify /\ [][NextClassify]_vars

-----------------------------------------------------------------------------
(* transcribe.ts: one upload's life at the remote API, from the prepare call *)
(* to the end of the finally block, for every state ai.files.get may report. *)
(* The prepare function is one step that returns or throws.                  *)

\* the values of file.state: the FileState enumeration, "" when it is missing
FileStates == {"", "STATE_UNSPECIFIED", "PROCESSING", "ACTIVE", "FAILED"}

\* faulty variant: a failed file is polled again as well
KeepsWaiting_failed(state) == state \in {"PROCESSING", "FAILED"}

\* the condition of the while loop of waitForFileProcessing
KeepsWaiting(state) == state = "PROCESSING"

InitSession ==
  /\ IdleCall
  /\ parse = Idle /\ sel = Idle /\ conc = Idle /\ save = Idle /\ cls = Idle
  /\ fin = Idle /\ proc = Idle /\ splice = Idle /\ saves = Idle
  /\ sess = [pc |-> "prepare", prepared |-> FALSE, uploadedFileName |-> "",
             reported |-> "none", round |-> 0, pending |-> NoCompletion,
             uploads |-> 0, generates |-> 0, cleanups |-> 0, deletes |-> 0,
             released |-> FALSE]

\* audioInfo = await prepareAudioInput(...): returns or throws
SessPrepare ==
  /\ sess.pc = "prepare"
  /\ \/ sess' = [sess EXCEPT !.prepared = TRUE, !.pc = "upload"]
     \/ sess' = [sess EXCEPT !.pending = Err("PrepareFailed"), !.pc = "finally"]
  /\ UNCHANGED <<callVars, parse, sel, conc, save, cls, units>>

\* fs.readFileSync(audioInfo.processedPath) and ai.files.upload
SessUpload ==
  /\ sess.pc = "upload"
  /\ \/ sess' = [sess EXCEPT !.pending = Err("ReadFailed"), !.pc = "finally"]
     \/ sess' = [sess EXCEPT !.uploads = @ + 1, !.pending = Err("UploadFailed"),
                             !.pc = "finally"]
     \/ sess' = [sess EXCEPT !.uploads = @ + 1, !.uploadedFileName = FileHandle,
                             !.pc = "poll"]
  /\ UNCHANGED <<callVars, parse, sel, conc, save, cls, units>>

\* waitForFileProcessing: one ai.files.get and the tests of file.state; round
\* tells one turn of the loop from the next
SessPoll ==
  /\ sess.pc = "poll"
  /\ \/ sess' = [sess EXCEPT !.pending = Err("StatusFailed"), !.pc = "finally"]
     \/ \E state \in FileStates :
          sess' = [sess EXCEPT
                     !.reported = state,
                     !.round = 1 - @,
                     !.pc = IF KeepsWaiting(state) THEN "poll"
                            ELSE IF state = "FAILED" THEN "finally"
                            ELSE "get",
                     !.pending = IF ~KeepsWaiting(state) /\ state = "FAILED"
                                 THEN Err("RemoteProcessingFailed") ELSE @]
  /\ UNCHANGED <<callVars, parse, sel, conc, save, cls, units>>

\* const uploadedFile = await ai.files.get(...)
SessGet ==
  /\ sess.pc = "get"
  /\ \/ sess' = [sess EXCEPT !.pending = Err("StatusFailed"), !.pc = "finally"]
     \/ sess' = [sess EXCEPT !.pc = "generate"]
  /\ UNCHANGED <<callVars, parse, sel, conc, save, cls, units>>

\* ai.models.generateContent and the rest of the try block
SessGenerate ==
  /\ sess.pc = "generate"
  /\ \/ sess' = [sess EXCEPT !.generates = @ + 1,
                             !.pending = Err("GenerateFailed"), !.pc = "finally"]
     \/ \E text \in Replies :
          sess' = [sess EXCEPT !.generates = @ + 1,
                               !.pending = Transcribed(text, 0), !.pc = "finally"]
  /\ UNCHANGED <<callVars, parse, sel, conc, save, cls, units>>

\* if (audioInfo) cleanupTempFiles(audioInfo)
SessCleanup ==
  /\ sess.pc = "finally"
  /\ sess' = [sess EXCEPT !.cleanups = IF sess.prepared THEN @ + 1 ELSE @,
                          !.pc = "release"]
  /\ UNCHANGED <<callVars, parse, sel, conc, save, cls, units>>

\* if (uploadedFileName) try { await ai.files.delete(...) } catch {}
SessDelete ==
  /\ sess.pc = "release"
  /\ IF sess.uploadedFileName # ""
     THEN \E deleted \in BOOLEAN :
            sess' = [sess EXCEPT !.deletes = @ + 1, !.released = deleted,
                                 !.pending = AfterDelete(@, deleted),
                                 !.pc = "done"]
     ELSE sess' = [sess EXCEPT !.pc = "done"]
  /\ UNCHANGED <<callVars, parse, sel, conc, save, cls, units>>

NextSession ==
  \/ SessPrepare
  \/ SessUpload
  \/ SessPoll
  \/ SessGet
  \/ SessGenerate
  \/ SessCleanup
  \/ SessDelete

SpecSession == InitSession /\ [][NextSession]_vars

\* every awaited call settles and its continuation runs
SpecSessionLive == SpecSession /\ WF_vars(NextSession)

-----------------------------------------------------------------------------
(* transcribe.ts: the finally block, and audio.ts cleanupTempFiles, over a   *)
(* temp directory that holds any of the processed file, the acquired file    *)
(* and a file of another invocation, and where unlinkSync may throw          *)

P_processed == Path("gemini_compressed_", 0, S_ogg)
P_original == Path("gemini_audio_", 0, S_wav)
P_other == Path("gemini_audio_", 1, S_wav)

\* the argument of cleanupTempFiles; NoAudio is audioInfo = null
FinInfos ==
  {NoAudio} \cup
  {[set |-> TRUE, processedPath |-> P_processed, mimeType |-> "audio/ogg",
    needsCleanup |-> n, originalPath |-> o] :
     n \in BOOLEAN, o \in {P_processed, P_original}}

InitFinally ==
  /\ IdleCall
  /\ parse = Idle /\ sel = Idle /\ conc = Idle /\ save = Idle /\ sess = Idle
  /\ cls = Idle /\ proc = Idle /\ splice = Idle /\ saves = Idle
  /\ \E present \in SUBSET {P_processed, P_original, P_other},
        info \in FinInfos, failing \in SUBSET {P_processed, P_original},
        name \in {"", FileHandle} :
       fin = [pc |-> "finally", before |-> [q \in present |-> 1],
              files |-> [q \in present |-> 1], info |-> info,
              failing |-> failing, uploadedFileName |-> name,
              cleanups |-> 0, raised |-> "", deletes |-> 0, deleted |-> FALSE]

\* if (audioInfo) cleanupTempFiles(audioInfo); an exception would leave the
\* finally block
FinCleanup ==
  /\ fin.pc = "finally"
  /\ IF fin.info.set
     THEN LET r == cleanupTempFilesUnder(fin.files, fin.info, fin.failing)
          IN fin' = [fin EXCEPT !.files = r.files, !.cleanups = @ + 1,
                                !.raised = r.error,
                                !.pc = IF r.error = "" THEN "release" ELSE "done"]
     ELSE fin' = [fin EXCEPT !.pc = "release"]
  /\ UNCHANGED <<callVars, flows, proc, splice, saves>>

\* if (uploadedFileName) try { await ai.files.delete(...) } catch {}
FinDelete ==
  /\ fin.pc = "release"
  /\ IF fin.uploadedFileName # ""
     THEN \E deleted \in BOOLEAN :
            fin' = [fin EXCEPT !.deletes = @ + 1, !.deleted = deleted,
                               !.pc = "done"]
     ELSE fin' = [fin EXCEPT !.pc = "done"]
  /\ UNCHANGED <<callVars, flows, proc, splice, saves>>

NextFinally ==
  \/ FinCleanup
  \/ FinDelete

SpecFinally == InitFinally /\ [][NextFinally]_vars

-----------------------------------------------------------------------------
(* audio.ts: a spawned ffmpeg or scp, the listeners the code puts on it and  *)
(* the promise it awaits.  A child that started emits stderr data and then   *)
(* close with its exit code; a child that could not be launched emits error  *)
(* and then close with the negated errno.                                   *)

ProcEvent(e, v) == [e |-> e, v |-> v]
StderrChunks == {<<>>, <<"x">>, <<"y">>, <<"x", "y">>, <<"y", "x">>}
ExitCodes == {0, 1, 255}
ENOENT == 0 - 2
ProcScripts ==
  {[i \in 1..Len(chunks) |-> ProcEvent("data", chunks[i])]
     \o <<ProcEvent("close", code)>> : chunks \in StderrChunks, code \in ExitCodes}
  \cup {<<ProcEvent("error", "ENOENT"), ProcEvent("close", ENOENT)>>}

Pending == [state |-> "pending", code |-> "", stderr |-> <<>>]
Fulfilled == [state |-> "fulfilled", code |-> "", stderr |-> <<>>]
Rejected(code, stderr) == [state |-> "rejected", code |-> code, stderr |-> stderr]

\* faulty variant: a later resolve or reject replaces the outcome
Settle_last(promise, outcome) == outcome

\* resolve(...) or reject(...) of a promise: only the first call counts
Settle(promise, outcome) ==
  IF promise.state = "pending" THEN outcome ELSE promise

\* the Error of a non-zero exit
ExitError(tool) == IF tool = "scp" THEN "TransferFailed" ELSE "TranscodeFailed"

InitSpawn ==
  /\ IdleCall
  /\ parse = Idle /\ sel = Idle /\ conc = Idle /\ save = Idle /\ sess = Idle
  /\ cls = Idle /\ fin = Idle /\ splice = Idle /\ saves = Idle
  /\ \E tool \in {"ffmpeg", "scp"}, script \in ProcScripts :
       proc = [tool |-> tool, script |-> script, delivered |-> <<>>,
               stderr |-> <<>>, promise |-> Pending, calls |-> 0,
               settled |-> 0, awaited |-> "waiting"]

\* the promise after one more resolve/reject call, and the count of the calls
\* that changed it
ProcSettle(outcome) ==
  [proc EXCEPT !.promise = Settle(@, outcome),
               !.calls = @ + 1,
               !.settled = IF Settle(proc.promise, outcome) # proc.promise
                           THEN @ + 1 ELSE @,
               !.delivered = Append(@, Head(proc.script)),
               !.script = Tail(@)]

\* stderr.on('data', (data) => { stderr += data.toString() })
ProcData ==
  /\ proc.script # <<>> /\ Head(proc.script).e = "data"
  /\ proc' = [proc EXCEPT !.stderr = @ \o <<Head(proc.script).v>>,
                          !.delivered = Append(@, Head(proc.script)),
                          !.script = Tail(@)]
  /\ UNCHANGED <<callVars, flows, fin, splice, saves>>

\* on('close', (code) => code === 0 ? resolve(...) : reject(new Error(...stderr)))
ProcClose ==
  /\ proc.script # <<>> /\ Head(proc.script).e = "close"
  /\ proc' = ProcSettle(IF Head(proc.script).v = 0 THEN Fulfilled
                        ELSE Rejected(ExitError(proc.tool), proc.stderr))
  /\ UNCHANGED <<callVars, flows, fin, splice, saves>>

\* on('error', (err) => reject(new Error('Failed to run ...')))
ProcError ==
  /\ proc.script # <<>> /\ Head(proc.script).e = "error"
  /\ proc' = ProcSettle(Rejected("ToolUnavailable", <<>>))
  /\ UNCHANGED <<callVars, flows, fin, splice, saves>>

\* the await on the promise: the caller resumes or the rejection is thrown
ProcAwait ==
  /\ proc.awaited = "waiting" /\ proc.promise.state # "pending"
  /\ proc' = [proc EXCEPT !.awaited = IF proc.promise.state = "fulfilled"
                                      THEN "resumed" ELSE "thrown"]
  /\ UNCHANGED <<callVars, flows, fin, splice, saves>>

NextSpawn ==
  \/ ProcData
  \/ ProcClose
  \/ ProcError
  \/ ProcAwait

SpecSpawn == InitSpawn /\ [][NextSpawn]_vars

-----------------------------------------------------------------------------
(* audio.ts processWithVad, step 4: the speech spans joined into one         *)
(* Float32Array.  A sample of span k has the value k; a fresh Float32Array   *)
(* holds zeros.                                                              *)

\* new Float32Array(n)
Float32Array(n) == [k \in 1..n |-> 0]

\* target.set(source, offset)
ArraySet(target, source, offset) ==
  [k \in DOMAIN target |->
     IF k > offset /\ k <= offset + Len(source) THEN source[k - offset]
     ELSE target[k]]

\* the spans vad.run may yield: 1..MaxSpans spans of 1..MaxSpanLen samples
SpanLists ==
  UNION {{[k \in 1..n |-> [j \in 1..lens[k] |-> k]] :
            lens \in [1..n -> 1..MaxSpanLen]} : n \in 1..MaxSpans}

\* faulty variant: room for a gap after every span
TotalLength_padded(speechSegments, gapSamples) ==
  SumSeq([k \in 1..Len(speechSegments) |-> Len(speechSegments[k])])
  + Len(speechSegments) * gapSamples

\* speechSegments.reduce((sum, seg) => sum + seg.length, 0)
\*   + (speechSegments.length - 1) * gapSamples
TotalLength(speechSegments, gapSamples) ==
  SumSeq([k \in 1..Len(speechSegments) |-> Len(speechSegments[k])])
  + (Len(speechSegments) - 1) * gapSamples

InitSplice ==
  /\ IdleCall
  /\ parse = Idle /\ sel = Idle /\ conc = Idle /\ save = Idle /\ sess = Idle
  /\ cls = Idle /\ fin = Idle /\ proc = Idle /\ saves = Idle
  /\ \E speechSegments \in SpanLists :
       splice = [stage |-> "spans", speechSegments |-> speechSegments,
                 i |-> 0, offset |-> 0, concatenated |-> <<>>]

\* gapSamples, gapBuffer, totalLength and the allocation of concatenated
SpliceAllocate ==
  /\ splice.stage = "spans"
  /\ splice' = [splice EXCEPT
                  !.stage = "loop",
                  !.concatenated =
                     Float32Array(TotalLength(splice.speechSegments, GapSamples))]
  /\ UNCHANGED <<callVars, flows, fin, proc, saves>>

\* one turn of the for loop (i counts from 0)
SpliceTurn ==
  /\ splice.stage = "loop" /\ splice.i < Len(splice.speechSegments)
  /\ LET seg == splice.speechSegments[splice.i + 1]
         placed == ArraySet(splice.concatenated, seg, splice.offset)
         gap == splice.i < Len(splice.speechSegments) - 1
     IN splice' = [splice EXCEPT
                     !.concatenated =
                        IF gap THEN ArraySet(placed, Float32Array(GapSamples),
                                             splice.offset + Len(seg))
                        ELSE placed,
                     !.offset = @ + Len(seg) + (IF gap THEN GapSamples ELSE 0),
                     !.i = @ + 1]
  /\ UNCHANGED <<callVars, flows, fin, proc, saves>>

\* the loop is over: concatenated goes to writeFloat32AsWav
SpliceWrite ==
  /\ splice.stage = "loop" /\ splice.i = Len(splice.speechSegments)
  /\ splice' = [splice EXCEPT !.stage = "written"]
  /\ UNCHANGED <<callVars, flows, fin, proc, saves>>

NextSplice ==
  \/ SpliceAllocate
  \/ SpliceTurn
  \/ SpliceWrite

SpecSplice == InitSplice /\ [][NextSplice]_vars

-----------------------------------------------------------------------------
(* Properties *)

Kind == PrepKind(req.tool)
Ended == pc = "done"
\* the finally block has run its local cleanup / is over
CleanupPassed == pc \in {"release", "return", "done"}
FinallyPassed == pc \in {"return", "done"}
Happened(ev) == {i \in 1..Len(trace) : trace[i].ev = ev}
MiB == 1024 * 1024

C2_NoTempFileAfterTranscodeError ==
  (/\ Ended
   /\ Count("ffmpeg") >= 1
   /\ response.kind = "error"
   /\ response.code \in {"TranscodeFailed", "ToolUnavailable"})
  => DOMAIN fs = {}

\* the part of C3 that is a state predicate
C3_DeleteState ==
  /\ Count("delete") <= 1
  /\ (uploadedFileName = "" => Count("delete") = 0)
  /\ (uploadedFileName # "" /\ FinallyPassed => Count("delete") = 1)
  /\ (uploadedFileName # "" <=> Count("upload") = 1 /\ remote # "none")
  /\ (Ended /\ pending.kind = "error" => response = Reply(pending, FALSE))
  /\ (Ended /\ response.kind = "result" =>
        pending.kind = "result" /\ response.code = pending.code)

\* C3: once the upload returned a handle, ai.files.delete is attempted exactly
\* once before the invocation ends, whatever polling, generation and parsing
\* did, and never without a handle; whether the delete succeeds or is
\* rejected, the transcribe function completes with the result or the error
\* its try block produced, and that is what the handler answers with.
C3_ReleaseOnce ==
  /\ []C3_DeleteState
  /\ [][pc = "release" => pending' = pending]_vars

\* an invocation whose delete was rejected and which still returned its result
C3_Witness ==
  /\ Ended
  /\ \E i \in Happened("delete") : trace[i].mime = "rejected"
  /\ response.kind = "result"


\* the acquisition variants the request populates
Populated ==
  {v \in {"inline", "url", "ssh"} :
     \/ v = "inline" /\ Truthy(req.fileContent)
     \/ v = "url" /\ Truthy(req.fileUrl)
     \/ v = "ssh" /\ Truthy(req.sshHost) /\ Truthy(req.sshPath)}

\* C4: for every tool, a request that populates none or more than one of the
\* three acquisition variants ends in an error without any fetch, file write,
\* scp/ffmpeg run or remote API call.
C4_ExactlyOneSourceElseInputError ==
  (req.tool \in VALID_TOOLS /\ Cardinality(Populated) # 1) =>
    /\ trace = <<>>
    /\ DOMAIN fs = {}
    /\ (Ended => response.kind = "error")

\* C5: on every acquisition path of every tool, no ffmpeg run has an input
\* file above the 100 MiB ceiling (an oversized file is rejected before any
\* transcoding).
C5_NoTranscodeAboveCeiling ==
  \A i \in Happened("ffmpeg") : trace[i].size <= MAX_FILE_SIZE_BYTES

\* C6: in standard preparation a file of more than 100 MiB is deleted and
\* rejected with "File too large", no ffmpeg run or upload happens, and the
\* size in the message is the size in MiB rounded to the nearest whole number
\* (half up); a file of exactly 100 MiB or less is not rejected for its size.
C6_StandardSizeGate ==
  (Kind = "standard" /\ pc # "gate") =>
    IF loc.size > 100 * MiB
    THEN /\ pending.kind = "error" /\ pending.code = "FileTooLarge"
         /\ ~Exists(fs, loc.tempPath)
         /\ 2 * pending.mb * MiB - MiB <= 2 * loc.size
         /\ 2 * loc.size < 2 * pending.mb * MiB + MiB
         /\ Count("ffmpeg") = 0 /\ Count("upload") = 0
         /\ (Ended => response = Reply(pending, FALSE))
    ELSE pending.code # "FileTooLarge" /\ response.code # "FileTooLarge"

\* a file of 100.5 MiB was rejected as 101 MB
C6_Witness ==
  /\ Ended /\ Kind = "standard"
  /\ loc.size = 100 * MiB + HalfMiB
  /\ response = Reply(Completion("error", "FileTooLarge", 101), FALSE)

\* C7: standard preparation returns the acquired file untouched (same path,
\* the classified media type, no ffmpeg run) if and only if the classified
\* type is native and the size is at most 15 MiB; otherwise it returns a
\* different path with media type audio/ogg, after one ffmpeg run.
C7_StandardNoOpIffNativeAndSmall ==
  (Kind = "standard" /\ audioInfo.set) =>
    /\ audioInfo.originalPath = loc.tempPath
    /\ IF loc.mime \in GEMINI_NATIVE_MIMES /\ loc.size <= 15 * MiB
       THEN /\ audioInfo.processedPath = loc.tempPath
            /\ audioInfo.mimeType = loc.mime
            /\ Count("ffmpeg") = 0
       ELSE /\ audioInfo.processedPath # loc.tempPath
            /\ audioInfo.mimeType = "audio/ogg"
            /\ Count("ffmpeg") = 1

\* a native file of exactly 15 MiB was returned as acquired
C7_Witness ==
  /\ Kind = "standard" /\ audioInfo.set
  /\ loc.size = 15 * MiB /\ loc.mime = "audio/wav"
  /\ audioInfo.processedPath = loc.tempPath

\* C8: in standard preparation a file whose classified type is not native
\* (the unknown type included) is transcoded whatever its size, and what is
\* uploaded always has a native media type: audio/ogg and the converted file
\* when the classified type is not native.
C8_NonNativeAlwaysTranscoded ==
  Kind = "standard" =>
    /\ (audioInfo.set /\ loc.mime \notin GEMINI_NATIVE_MIMES) =>
         /\ audioInfo.mimeType = "audio/ogg"
         /\ \E i \in Happened("ffmpeg") :
              trace[i].src = loc.tempPath /\ trace[i].path = audioInfo.processedPath
    /\ \A i \in Happened("upload") :
         /\ trace[i].mime \in GEMINI_NATIVE_MIMES
         /\ loc.mime \notin GEMINI_NATIVE_MIMES =>
              trace[i].mime = "audio/ogg" /\ trace[i].path # loc.tempPath

\* a file of unknown type at the threshold size was converted and uploaded
C8_Witness ==
  /\ Kind = "standard" /\ loc.mime = "audio/unknown" /\ loc.size = 15 * MiB
  /\ \E i \in Happened("upload") : trace[i].mime = "audio/ogg"

\* C9: the forced-compression tool runs ffmpeg exactly once on the acquired
\* file whatever its size and classified type, returns and uploads the
\* converted file as audio/ogg, and uploads at most once.
C9_ForcedCompressionAlwaysTranscodes ==
  Kind = "compressed" =>
    /\ Count("ffmpeg") <= 1 /\ Count("upload") <= 1
    /\ audioInfo.set =>
         /\ Count("ffmpeg") = 1
         /\ audioInfo.mimeType = "audio/ogg"
         /\ audioInfo.processedPath # loc.tempPath
         /\ \A i \in Happened("ffmpeg") :
              trace[i].src = loc.tempPath /\ trace[i].path = audioInfo.processedPath
    /\ \A i \in Happened("upload") :
         /\ trace[i].mime = "audio/ogg"
         /\ trace[i].path = audioInfo.processedPath
         /\ \E j \in Happened("ffmpeg") : j < i

\* a native file of threshold size went through ffmpeg and the whole cycle
C9_Witness ==
  /\ Ended /\ Kind = "compressed" /\ response.kind = "result"
  /\ loc.mime = "audio/wav"
  /\ \E i \in Happened("ffmpeg") : trace[i].size = 15 * MiB
  /\ Count("upload") = 1

\* C10: when the detector yields no speech span, processWithVad returns its
\* input path and writes no cleaned file; the compression then runs on the
\* acquired file, which still exists when ffmpeg starts.
C10_VadZeroSpansFallsBack ==
  (Kind = "vad" /\ loc.vadProcessedPath # NoPath /\ loc.segments = <<>>) =>
    /\ loc.vadProcessedPath = loc.tempPath
    /\ \A q \in DOMAIN fs : q.pre # "vad_cleaned_"
    /\ \A i \in Happened("write") : trace[i].path.pre # "vad_cleaned_"
    /\ (pc = "convert" => loc.input = loc.tempPath /\ Exists(fs, loc.tempPath))
    /\ \A i \in Happened("ffmpeg") :
         trace[i].path.pre = "gemini_converted_" =>
           trace[i].src = loc.tempPath /\ trace[i].size >= 0

\* a VAD invocation without speech that was compressed and transcribed
C10_Witness ==
  /\ Ended /\ Kind = "vad" /\ response.kind = "result"
  /\ loc.segments = <<>> /\ loc.vadProcessedPath = loc.tempPath
  /\ \E i \in Happened("ffmpeg") : trace[i].src = loc.tempPath
                                   /\ trace[i].path = audioInfo.processedPath


\* the parts of C14 that are state predicates: a response exists exactly when
\* the call has ended, and it is a complete result or an error, not both
WellFormed(r) ==
  \/ /\ r.kind = "result"
     /\ r.code = ""
     /\ DOMAIN r.value = ResultKeys
     /\ \A k \in ResultKeys : r.value[k].t # "undefined"
  \/ /\ r.kind = "error"
     /\ r.code # ""
     /\ r.value = NoValue
     /\ ~r.saved
C14_ResponseState ==
  /\ Ended <=> response # NoReply
  /\ Ended => WellFormed(response)

\* C14: every tool call, whatever the tool name, the arguments and the
\* failures of ffmpeg, scp, the network or the remote API, ends with one
\* response, set once and never changed, that is a complete result or an
\* error message; an Error thrown anywhere is turned into that error message.
C14_OneResponsePerCall ==
  /\ []C14_ResponseState
  /\ [][response' # response => (response = NoReply /\ pc' = "done")]_vars
  /\ [][(pc = "return" /\ pending.kind = "error") =>
          response' = Reply(pending, FALSE)]_vars

\* a call whose transcript could not be saved ended with an error message
C14_Witness ==
  /\ Ended
  /\ pending.kind = "result"
  /\ response = Reply(Err("SaveFailed"), FALSE)

\* the stage of the pipeline an effect belongs to
StageOf(e) ==
  CASE e.ev \in {"fetch", "scp", "unlink"} -> 1
    [] e.ev = "write" -> IF e.path.pre = "vad_cleaned_" THEN 2 ELSE 1
    [] e.ev = "ffmpeg" -> 2
    [] e.ev = "upload" -> 3
    [] e.ev \in {"poll", "get"} -> 4
    [] e.ev = "generate" -> 5
    [] e.ev \in {"cleanup", "delete"} -> 6
    [] OTHER -> 7

\* C15: the effects of one invocation occur in the order acquisition,
\* transcoding, upload, status polling, generation, cleanup and release, no
\* effect of an earlier stage following one of a later stage; and the
\* processed file exists when its bytes are read for the upload.
C15_StagesInOrder ==
  /\ \A i \in 1..(Len(trace) - 1) : StageOf(trace[i]) <= StageOf(trace[i + 1])
  /\ (pc = "upload" => Exists(fs, audioInfo.processedPath))
  /\ (Count("upload") > 0 /\ ~CleanupPassed => Count("cleanup") = 0)

\* a VAD invocation that went through every stage
C15_Witness ==
  /\ Ended /\ Kind = "vad" /\ response.kind = "result"
  /\ loc.segments # <<>>
  /\ Count("ffmpeg") = 2 /\ Count("upload") = 1 /\ Count("generate") = 1
  /\ Count("cleanup") = 1 /\ Count("delete") = 1

\* C19: the custom-instruction tool without an instruction, the format tool
\* without a format label and an unknown tool are answered with an error
\* before any acquisition, subprocess or remote call: nothing has happened,
\* no temp file and no remote handle exist.
C19_InvalidCallsRejectedFirst ==
  (\/ req.tool \notin VALID_TOOLS
   \/ req.tool = "transcribe_audio_custom" /\ req.custom_prompt = <<>>
   \/ req.tool = "transcribe_audio_format" /\ req.format = <<>>)
  => /\ pc \in {"dispatch", "done"}
     /\ trace = <<>>
     /\ DOMAIN fs = {}
     /\ uploadedFileName = "" /\ remote = "none"
     /\ (Ended => /\ response.kind = "error"
                  /\ response.code \in {"UnknownTool", "MissingParameters",
                                        "MissingCustomPrompt", "MissingFormat"})

\* a format call with a source and no format label was rejected
C19_Witness ==
  /\ Ended
  /\ req.tool = "transcribe_audio_format" /\ HasSource(req)
  /\ response = Reply(Err("MissingFormat"), FALSE)

-----------------------------------------------------------------------------
(* Properties of the handler's selection, under SpecSelect *)

\* C18: each tool has its fixed audio path and instruction: default, verbatim,
\* the caller's text, the format template, default with forced compression,
\* the specification prompt, and for the VAD tool the VAD path with the
\* verbatim instruction when raw is set and the default one otherwise;
\* custom_prompt and format change nothing for the other tools.
C18_ToolSelectsPathAndInstruction ==
  sel.stage = "selected" =>
    LET t == sel.call.tool
    IN /\ sel.fn = CASE t = "transcribe_audio_large" -> "compressed"
                     [] t = "transcribe_audio_vad" -> "vad"
                     [] OTHER -> "standard"
       /\ sel.prompt =
            CASE t = "transcribe_audio" -> TRANSCRIPTION_PROMPT
              [] t = "transcribe_audio_raw" -> RAW_TRANSCRIPTION_PROMPT
              [] t = "transcribe_audio_custom" ->
                   Prompt("text", sel.call.custom_prompt)
              [] t = "transcribe_audio_format" ->
                   generateFormatPrompt(sel.call.format)
              [] t = "transcribe_audio_large" -> TRANSCRIPTION_PROMPT
              [] t = "transcribe_audio_devspec" -> DEVSPEC_PROMPT
              [] t = "transcribe_audio_vad" ->
                   IF sel.call.raw THEN RAW_TRANSCRIPTION_PROMPT
                   ELSE TRANSCRIPTION_PROMPT

\* the forced-compression tool called with a custom_prompt it does not read
C18_Witness ==
  /\ sel.stage = "selected"
  /\ sel.call.tool = "transcribe_audio_large"
  /\ sel.call.custom_prompt # <<>>
  /\ sel.fn = "compressed" /\ sel.prompt = TRANSCRIPTION_PROMPT

-----------------------------------------------------------------------------
(* Properties of the reply parser, under SpecParse *)

Parsed == parse.stage \in {"parsed", "built"}
Built == parse.stage = "built"
ObjectTexts == {JsonText(v) : v \in JsonObjects}
\* the reply is no JSON document, bare or inside a json / untagged code block
NotJson == parse.body \in NonJsonBodies \/ parse.wrap \in {"js_nl", "JSON_nl"}

\* C11: a JSON object text parses to the same fields when it stands alone,
\* inside a bare code block and inside a code block with a language tag
\* (json, js, JSON).
C11_FencedRepliesParseAlike ==
  (/\ Parsed
   /\ parse.body \in ObjectTexts
   /\ parse.wrap \in {"none", "bare", "bare_nl", "json", "json_nl", "js_nl",
                      "JSON_nl"})
  => parse.parsed = JsonParse(parse.body)

C13_NonEmptyReplyNeverFails ==
  (Built /\ Truthy(parse.text)) =>
    /\ parse.out.kind = "result"
    /\ \A k \in {"title", "description", "transcript"} :
         JsTruthy(parse.out.value[k])

\* C20: when the reply is a JSON object with format_applied, the returned
\* result has the format_applied field.
C20_FormatAppliedReturned ==
  (/\ Built
   /\ parse.parsed.t = "object"
   /\ parse.parsed.fields["format_applied"] # Undefined
   /\ parse.out.kind = "result")
  => "format_applied" \in DOMAIN parse.out.value

-----------------------------------------------------------------------------
(* Properties of two concurrent invocations, under SpecPair *)

\* the temp paths an invocation has been given so far
AssignedPaths(i) ==
  LET c == conc.calls[i]
  IN {c.tempPath, c.vadInputPath, c.vadProcessedPath, c.info.processedPath}
     \ {NoPath}
InFlight(i) == conc.calls[i].pc \notin {"prepare", "done"}

\* C16: two invocations in flight at the same time never hold the same temp
\* path, whether for the acquired file, a converted output or a VAD
\* intermediate file.
C16_TempPathsDistinct ==
  \A i, j \in Invocations :
    (i # j /\ InFlight(i) /\ InFlight(j)) =>
      AssignedPaths(i) \cap AssignedPaths(j) = {}

\* C17: under every interleaving each invocation finds the temp files it has
\* to read, and uploads bytes that come from its own payload.
C17_NoInterferenceThroughTemp ==
  \A i \in Invocations :
    /\ ~conc.calls[i].lost
    /\ conc.calls[i].uploaded \in {0, i}

-----------------------------------------------------------------------------
(* Properties of the handler's save, under SpecSave *)

SaveDone == save.stage = "done"
HasSavedTo == "saved_to" \in DOMAIN save.response.value

\* the directory the caller and the environment ask for
InEffect ==
  IF save.outputDir # <<>> THEN save.outputDir
  ELSE IF "TRANSCRIPT_OUTPUT_DIR" \notin DOMAIN save.env THEN S_transcripts
  ELSE save.env.TRANSCRIPT_OUTPUT_DIR

\* C21: the response carries saved_to exactly when this invocation wrote a
\* Markdown file, and saved_to is that file; with no save directory in effect
\* no directory is created, no file is written and the response is exactly the
\* transcription result, without saved_to.
C21_SavedToIffFileWritten ==
  /\ SaveDone => (HasSavedTo <=> save.files # {})
  /\ SaveDone /\ HasSavedTo =>
       /\ save.response.kind = "result"
       /\ save.files = {save.response.value["saved_to"].s}
       /\ EndsWith(save.response.value["saved_to"].s, S_md)
       /\ \A k \in ResultKeys : save.response.value[k] = save.result[k]
  /\ save.stage # "idle" /\ InEffect = <<>> =>
       /\ save.made = {} /\ save.files = {}
       /\ save.stage \notin {"mkdir", "write"}
       /\ SaveDone =>
            /\ save.response.kind = "result"
            /\ save.response.value = save.result

C21_Witness ==
  /\ SaveDone /\ HasSavedTo
  /\ save.files = {S_out \o <<"/", "a", "-", "b", "-", "c">> \o S_md}

\* C22: the save directory is the caller's output_dir when it is non-empty,
\* otherwise the TRANSCRIPT_OUTPUT_DIR setting, which is ./transcripts when the
\* variable is unset; with the variable set to the empty string and no
\* output_dir nothing is saved.
C22_EffectiveSaveDirectory ==
  /\ save.stage \in {"mkdir", "write", "respond", "done"} =>
       /\ InEffect # <<>> => save.effectiveOutputDir = InEffect
       /\ save.made \subseteq {InEffect}
       /\ \A f \in save.files : f = PathJoin(InEffect, save.slug \o S_md)
  /\ save.stage # "idle" /\ save.outputDir = <<>>
       /\ save.env = [TRANSCRIPT_OUTPUT_DIR |-> <<>>] =>
       /\ save.made = {} /\ save.files = {}
       /\ SaveDone => save.response.kind = "result" /\ ~HasSavedTo

C22_Witness ==
  /\ SaveDone /\ save.outputDir = <<>> /\ save.env = NoEnv
  /\ save.made = {S_transcripts}
  /\ HasSavedTo
  /\ StartsWith(save.response.value["saved_to"].s,
                <<"t", "r", "a", "n", "s", "c", "r", "i", "p", "t", "s", "/">>)

\* C23: the response contains saved_to only if the caller provided output_dir.
C23_SavedToOnlyWithOutputDir ==
  SaveDone /\ HasSavedTo => save.outputDir # <<>>

SlugChars == {Lower[i] : i \in 1..26} \cup Digits \cup {"_", "-"}

\* the characters of s that belong to the class, in order
Only(s, class) == SelectSeq(s, LAMBDA c : c \in class)

\* C24: the slug of a title has at most 80 characters, all of them lowercase
\* letters, digits, underscores or hyphens, and no two hyphens in a row; its
\* letters, digits and underscores are those of the lowercased title, in
\* order; slugifying it again changes nothing; and the slug of
\* "Meeting Notes: Q3 Review!" is "meeting-notes-q3-review".
C24_SlugShape ==
  save.stage \in {"mkdir", "write", "respond", "done"} /\ save.savedFilePath # <<>> =>
    LET title == save.result["title"].s
        slug == save.slug
    IN /\ Len(slug) <= 80
       /\ \A i \in 1..Len(slug) : slug[i] \in SlugChars
       /\ \A i \in 1..(Len(slug) - 1) : ~(slug[i] = "-" /\ slug[i + 1] = "-")
       /\ LET kept == Only(ToLowerCase(title), WordChars)
              mine == Only(slug, WordChars)
          IN Len(mine) <= Len(kept) /\ mine = SubSeq(kept, 1, Len(mine))
       /\ Len(title) <= 80 =>
            Only(slug, WordChars) = Only(ToLowerCase(title), WordChars)
       /\ slugify(slug) = slug
       /\ title = MeetingNotes =>
            slug = <<"m", "e", "e", "t", "i", "n", "g", "-", "n", "o", "t", "e",
                     "s", "-", "q", "3", "-", "r", "e", "v", "i", "e", "w">>

C24_Witness ==
  /\ SaveDone /\ save.result["title"] = Str(MeetingNotes)
  /\ save.files =
       {<<"o", "u", "t", "/", "m", "e", "e", "t", "i", "n", "g", "-", "n", "o",
          "t", "e", "s", "-", "q", "3", "-", "r", "e", "v", "i", "e", "w",
          ".", "m", "d">>}

-----------------------------------------------------------------------------
(* Properties of the classification, under SpecClassify *)

Synonyms ==
  ("audio/wave" :> "audio/wav") @@ ("audio/x-wav" :> "audio/wav") @@
  ("audio/x-flac" :> "audio/flac") @@ ("audio/x-aiff" :> "audio/aiff") @@
  ("audio/x-m4a" :> "audio/mp4")
\* the types the tables know, synonyms aside
CanonicalTypes == MIME_TO_EXT \ DOMAIN Synonyms
KnownExtension(name) == ToLowerCase(ExtName(name)) \in DOMAIN SUPPORTED_FORMATS

\* C30: a content type that is a known type or synonym decides, in canonical
\* form; otherwise a known extension of the declared name decides, whatever
\* its case; otherwise the type is the sentinel audio/unknown, which is not
\* native.  The result is always a known canonical type or the sentinel.
C30_ClassificationOrder ==
  cls.stage = "done" =>
    /\ cls.contentType \in DOMAIN Synonyms =>
         cls.mimeType = Synonyms[cls.contentType]
    /\ cls.contentType \in CanonicalTypes => cls.mimeType = cls.contentType
    /\ cls.contentType \notin MIME_TO_EXT /\ KnownExtension(cls.fileName) =>
         cls.mimeType = SUPPORTED_FORMATS[ToLowerCase(ExtName(cls.fileName))]
    /\ cls.contentType \notin MIME_TO_EXT /\ ~KnownExtension(cls.fileName) =>
         cls.mimeType = "audio/unknown" /\ ~cls.native
    /\ cls.mimeType \in CanonicalTypes \cup {"audio/unknown"}

-----------------------------------------------------------------------------
(* Failures of one invocation, under Spec *)

LastEvent(t) == t[Len(t)]

C28_EmptyReplyIsAnError ==
  /\ pending.kind = "result" => JsTruthy(pending.value["transcript"])
  /\ pending.code = "EmptyResponse" =>
       /\ pending.kind = "error"
       /\ Count("generate") = 1 /\ Count("save") = 0
       /\ CleanupPassed => Count("cleanup") = 1
       /\ FinallyPassed => Count("delete") = 1
       /\ Ended => response = Reply(Err("EmptyResponse"), FALSE)

C28_Witness ==
  /\ Ended /\ response.kind = "error" /\ response.code = "EmptyResponse"
  /\ Count("cleanup") = 1 /\ Count("delete") = 1 /\ Count("save") = 0
  /\ DOMAIN fs = {}

\* C29: an invocation whose acquisition failed leaves no temp file: a refused
\* fetch fails before any file is created, and after a missing body, a broken
\* download or a failed scp transfer the temp directory is empty once the
\* invocation has ended.
C29_FailedAcquisitionLeavesNoFile ==
  /\ pending.code = "FetchFailed" => Count("write") = 0 /\ DOMAIN fs = {}
  /\ Ended /\ pending.code \in {"NoResponseBody", "DownloadFailed", "TransferFailed"}
       => DOMAIN fs = {}

-----------------------------------------------------------------------------
(* Properties of the remote session, under SpecSession and SpecSessionLive *)

\* the poll loop is over and was not left by a rejected status query
LoopEnded ==
  sess.pc \in {"get", "generate"} \/ sess.generates > 0
  \/ sess.pending.code \in {"RemoteProcessingFailed", "GenerateFailed"}
SessionOver == sess.pc = "done"

\* C26: the poll loop ends only when the reported state is ACTIVE or FAILED;
\* generation is invoked only for a file reported ACTIVE; a file reported
\* FAILED ends the invocation with RemoteProcessingFailed, without a generation
\* call and without a second upload, and the uploaded file is still deleted.
C26_GenerationOnlyWhenReady ==
  /\ LoopEnded => sess.reported \in {"ACTIVE", "FAILED"}
  /\ sess.pc = "generate" \/ sess.generates > 0 => sess.reported = "ACTIVE"
  /\ sess.reported = "FAILED" /\ sess.pc # "poll" /\ sess.pending.code # "StatusFailed" =>
       /\ sess.pending = Err("RemoteProcessingFailed")
       /\ sess.generates = 0 /\ sess.uploads = 1
       /\ SessionOver => sess.deletes = 1

\* the status query has not yet reported anything but PROCESSING
StillProcessing == sess.pc = "poll" /\ sess.reported \in {"none", "PROCESSING"}

\* C27: when every call settles, an invocation either ends, with a result or
\* an error and with the cleanup and the delete done, or the remote file is
\* reported PROCESSING for ever; in that case the invocation goes on polling
\* and never reaches the cleanup or the delete, and the loop is left only by a
\* report other than PROCESSING or by a rejected status query.
C27_EndsUnlessProcessingForEver ==
  /\ <>[]StillProcessing
     \/ <>(/\ SessionOver
           /\ sess.pending.kind \in {"result", "error"}
           /\ sess.prepared => sess.cleanups = 1
           /\ sess.uploadedFileName # "" => sess.deletes = 1)
  /\ <>[]StillProcessing =>
       /\ [](sess.pc \notin {"finally", "release", "done"})
       /\ []<>(sess.round = 0) /\ []<>(sess.round = 1)
  /\ [][sess.pc = "poll" /\ sess.pc' # "poll" =>
          sess.reported' # "PROCESSING" \/ sess.pending'.code = "StatusFailed"]_vars

C27_Witness ==
  /\ sess.pc = "poll" /\ sess.reported = "PROCESSING" /\ sess.round = 0
  /\ sess.cleanups = 0 /\ sess.deletes = 0

-----------------------------------------------------------------------------
(* Properties of the finally block, under SpecFinally *)

\* the paths cleanupTempFiles is to delete
CleanupTargets ==
  IF fin.info.set /\ fin.info.needsCleanup
  THEN {fin.info.processedPath, fin.info.originalPath}
  ELSE {}
FinCleaned == fin.pc \in {"release", "done"} /\ fin.info.set

\* C31: cleanup deletes the processed file when cleanup is required, and the
\* source file only when its path differs; no other file is touched; a file
\* that is missing or whose deletion fails is passed over without an error;
\* and a second run under the same conditions changes nothing and raises
\* nothing.
C31_CleanupBestEffort ==
  FinCleaned =>
    /\ fin.raised = "" /\ fin.cleanups = 1
    /\ \A q \in DOMAIN fin.before :
         q \in DOMAIN fin.files <=> (q \notin CleanupTargets \/ q \in fin.failing)
    /\ DOMAIN fin.files \subseteq DOMAIN fin.before
    /\ \A q \in DOMAIN fin.files : fin.files[q] = fin.before[q]
    /\ ~fin.info.needsCleanup => fin.files = fin.before
    /\ cleanupTempFilesUnder(fin.files, fin.info, fin.failing) = Outcome(fin.files)
    /\ fin.failing = {} =>
         \A again \in SUBSET {P_processed, P_original} :
           cleanupTempFilesUnder(fin.files, fin.info, again) = Outcome(fin.files)

\* both files were there, the processed one could not be deleted
C31_Witness ==
  /\ FinCleaned /\ fin.info.needsCleanup
  /\ fin.info.originalPath = P_original
  /\ DOMAIN fin.before = {P_processed, P_original, P_other}
  /\ fin.failing = {P_processed}
  /\ DOMAIN fin.files = {P_processed, P_other}

\* C34: in the finally block the local cleanup comes before the remote
\* delete; a failed local deletion does not keep the delete from being
\* attempted; and whether or not the delete succeeds, every temp file the
\* cleanup could remove is gone.
C34_CleanupAndReleaseIndependent ==
  /\ fin.deletes > 0 => fin.pc = "done" /\ (fin.info.set => fin.cleanups = 1)
  /\ fin.pc = "done" =>
       /\ fin.raised = ""
       /\ fin.deletes = (IF fin.uploadedFileName # "" THEN 1 ELSE 0)
       /\ \A q \in CleanupTargets \ fin.failing : q \notin DOMAIN fin.files

\* the acquired file could not be deleted and the remote delete was rejected
C34_Witness ==
  /\ fin.pc = "done" /\ fin.info.set /\ fin.info.needsCleanup
  /\ fin.failing = {P_original} /\ fin.info.originalPath = P_original
  /\ DOMAIN fin.before = {P_processed, P_original}
  /\ DOMAIN fin.files = {P_original}
  /\ fin.deletes = 1 /\ ~fin.deleted

-----------------------------------------------------------------------------
(* Properties of a subprocess run, under SpecSpawn *)

Delivered(e) == \E i \in 1..Len(proc.delivered) : proc.delivered[i].e = e
ClosedWith(codes) ==
  \E i \in 1..Len(proc.delivered) :
    proc.delivered[i].e = "close" /\ proc.delivered[i].v \in codes
\* every chunk of stderr the child wrote, in order
AllStderr ==
  LET data == SelectSeq(proc.delivered, LAMBDA ev : ev.e = "data")
  IN [i \in 1..Len(data) |-> data[i].v]

\* C32: the promise awaiting a subprocess settles once: exit code 0 resumes
\* the caller; another exit code throws TranscodeFailed (ffmpeg) or
\* TransferFailed (scp) with the stderr collected; a child that could not be
\* launched throws ToolUnavailable, also after its close event has arrived,
\* and the caller is not resumed.
C32_SubprocessSettlesOnce ==
  /\ proc.settled <= 1
  /\ proc.settled = 1 <=> proc.promise.state # "pending"
  /\ proc.awaited # "waiting" => proc.settled = 1
  /\ proc.awaited = "resumed" <=>
       proc.awaited # "waiting" /\ ClosedWith({0}) /\ ~Delivered("error")
  /\ proc.awaited = "thrown" /\ ~Delivered("error") =>
       /\ ClosedWith(ExitCodes \ {0})
       /\ proc.promise = Rejected(ExitError(proc.tool), AllStderr)
  /\ Delivered("error") =>
       /\ proc.promise = Rejected("ToolUnavailable", <<>>)
       /\ proc.awaited # "resumed"
  /\ proc.script = <<>> => proc.promise.state # "pending"

\* scp could not be launched; error and close both arrived
C32_Witness ==
  /\ proc.tool = "scp" /\ proc.script = <<>>
  /\ Delivered("error") /\ ClosedWith({ENOENT})
  /\ proc.calls = 2 /\ proc.settled = 1
  /\ proc.awaited = "thrown" /\ proc.promise.code = "ToolUnavailable"

-----------------------------------------------------------------------------
(* Properties of the joined speech spans, under SpecSplice *)

Silence == [k \in 1..1600 |-> 0]

\* the spans in order with silence between consecutive ones
RECURSIVE Joined(_)
Joined(spans) ==
  IF Len(spans) = 1 THEN spans[1]
  ELSE spans[1] \o Silence \o Joined(Tail(spans))

\* C33: for n >= 1 speech spans the cleaned audio is the spans in their
\* original order with exactly 1600 zero samples between each two consecutive
\* spans and none before the first or after the last; it has the sum of the
\* span lengths plus (n - 1) * 1600 samples.
C33_SpansJoinedWithGaps ==
  splice.stage = "written" =>
    LET spans == splice.speechSegments
        n == Len(spans)
        audio == splice.concatenated
    IN /\ audio = Joined(spans)
       /\ Len(audio) = SumSeq([k \in 1..n |-> Len(spans[k])]) + (n - 1) * 1600
       /\ audio[1] # 0 /\ audio[Len(audio)] # 0
       /\ splice.offset = Len(audio)

\* three spans of 2, 1 and 3 samples
C33_Witness ==
  /\ splice.stage = "written"
  /\ splice.speechSegments = <<<<1, 1>>, <<2>>, <<3, 3, 3>>>>
  /\ Len(splice.concatenated) = 3206
  /\ splice.concatenated[2] = 1 /\ splice.concatenated[3] = 0
  /\ splice.concatenated[1602] = 0 /\ splice.concatenated[1603] = 2
  /\ splice.concatenated[3203] = 0 /\ splice.concatenated[3204] = 3

-----------------------------------------------------------------------------
(* Properties of the source choice, under Spec *)

\* the acquisition strategies whose effects are in the trace
StrategiesRun ==
  {"fileContent" : i \in {k \in 1..Len(trace) :
      /\ trace[k].ev = "write"
      /\ trace[k].path.pre \in {"gemini_upload_", "gemini_vad_upload_"}}}
  \cup {"fileUrl" : i \in {k \in 1..Len(trace) : trace[k].ev = "fetch"}}
  \cup {"ssh" : i \in {k \in 1..Len(trace) : trace[k].ev = "scp"}}

\* the preparation of the call has been entered and left
Prepared ==
  /\ pc \notin {"dispatch", "entry", "prepare"}
  /\ ~(pc = "done" /\ response.kind = "error"
         /\ response.code \in {"UnknownTool", "MissingParameters",
                               "MissingCustomPrompt", "MissingFormat",
                               "NoApiKey"})

\* C35: whatever source arguments are supplied, one acquisition strategy runs
\* per invocation, chosen by priority: the inline payload if non-empty, else
\* the URL if non-empty, else the scp pull when host and path are both given;
\* a host without a path and without another source fails and scp is not
\* started.
C35_OneStrategyByPriority ==
  /\ Cardinality(StrategiesRun) <= 1
  /\ Count("scp") <= 1 /\ Count("fetch") <= 1
  /\ "fileContent" \in StrategiesRun => Truthy(req.fileContent)
  /\ "fileUrl" \in StrategiesRun =>
       ~Truthy(req.fileContent) /\ Truthy(req.fileUrl)
  /\ "ssh" \in StrategiesRun =>
       /\ ~Truthy(req.fileContent) /\ ~Truthy(req.fileUrl)
       /\ Truthy(req.sshHost) /\ Truthy(req.sshPath)
  /\ trace # <<>> => Cardinality(StrategiesRun) = 1
  /\ Prepared =>
       IF \/ Truthy(req.fileContent) \/ Truthy(req.fileUrl)
          \/ Truthy(req.sshHost) /\ Truthy(req.sshPath)
       THEN Cardinality(StrategiesRun) = 1
       ELSE /\ StrategiesRun = {} /\ trace = <<>>
            /\ pending = Err("InvalidInput")
            /\ pc = "done" => response = Caught(Err("InvalidInput"))

\* every source argument was given and the inline payload alone was used
C35_Witness ==
  /\ pc = "done"
  /\ Truthy(req.fileContent) /\ Truthy(req.fileUrl)
  /\ Truthy(req.sshHost) /\ Truthy(req.sshPath)
  /\ StrategiesRun = {"fileContent"}
  /\ response.kind = "result"

-----------------------------------------------------------------------------
(* Properties of the save step, under Spec *)

Events(names) == {k \in 1..Len(trace) : trace[k].ev \in names}

\* C36: the transcript is saved only after the transcribe function has done
\* its temporary-file cleanup and its remote deletion; when creating the
\* directory or writing the Markdown file fails, the call returns one error
\* message and no structured result, although the transcription succeeded.
C36_SaveAfterPipeline ==
  \A k \in Events({"save"}) :
    /\ k = Len(trace) /\ Events({"save"}) = {k}
    /\ pc = "done" /\ pending.kind = "result"
    /\ Events({"cleanup"}) # {} /\ Events({"delete"}) # {}
    /\ \A j \in 1..Len(trace) : j # k => j < k
    /\ \A j \in Events({"cleanup", "delete", "unlink", "upload", "generate"}) :
         j < k
    /\ \A p \in DOMAIN fs : p \notin {audioInfo.processedPath, audioInfo.originalPath}
    /\ trace[k].mime = "rejected" =>
         /\ response.kind = "error" /\ response.code = "SaveFailed"
         /\ response.value = NoValue /\ ~response.saved
    /\ trace[k].mime = "written" =>
         response.kind = "result" /\ response.saved

\* the transcription succeeded, the remote file was deleted, and the write of
\* the Markdown file failed
C36_Witness ==
  /\ pc = "done" /\ pending.kind = "result"
  /\ trace # <<>>
  /\ LastEvent(trace).ev = "save" /\ LastEvent(trace).mime = "rejected"
  /\ remote = "deleted"
  /\ response = Caught(Err("SaveFailed"))

-----------------------------------------------------------------------------
(* index.ts: two invocations of the handler that save their transcripts.    *)
(* Each awaits its transcribe function; the statements from the choice of   *)
(* the directory to writeFileSync contain no await and run in one turn.     *)

S_VoiceNote == <<"V", "o", "i", "c", "e", " ", "N", "o", "t", "e">>
S_a_b == <<"a", "-", "b">>

\* the title of the model's JSON reply: two spellings with one slug, the
\* fallback itself, an empty text, or none
ParsedTitles ==
  {Str(<<"A", " ", "b">>), Str(<<"a", "-", "B", "!">>), Str(S_VoiceNote),
   Str(<<>>), Undefined}
Transcripts == {<<"x">>, <<"y">>}

\* the object the transcribe function returns for a parsed reply
TranscriptionResult(parsedTitle, transcript) ==
  [k \in ResultKeys |->
     CASE k = "title" -> JsOr(parsedTitle, Str(S_VoiceNote))
       [] k = "transcript" -> Str(transcript)
       [] OTHER -> Str(<<"x">>)]

\* the template literal of the Markdown file, as its pieces
MarkdownContent(result) ==
  <<"# ", result["title"], "\n\n> ", result["description"],
    "\n\n*Transcribed: ", result["timestamp_readable"], "*\n\n---\n\n",
    result["transcript"], "\n">>

OldContent == <<"old">>

\* faulty variant: an existing file is kept (flag 'wx' without the throw)
WriteFileSync_exclusive(files, file, data) ==
  IF file \in DOMAIN files THEN files
  ELSE [q \in (DOMAIN files) \cup {file} |-> IF q = file THEN data ELSE files[q]]

\* fs.writeFileSync(file, data, 'utf-8'): creates or replaces the file
WriteFileSync(files, file, data) ==
  [q \in (DOMAIN files) \cup {file} |-> IF q = file THEN data ELSE files[q]]

SaveCall(outputDir) ==
  [stage |-> "awaiting", outputDir |-> outputDir, result |-> NoValue,
   effectiveOutputDir |-> <<>>, slug |-> <<>>, savedFilePath |-> <<>>,
   response |-> NoSaveReply]

InitSaves ==
  /\ IdleCall
  /\ parse = Idle /\ sel = Idle /\ conc = Idle
  /\ save = Idle /\ sess = Idle /\ cls = Idle
  /\ fin = Idle /\ proc = Idle /\ splice = Idle
  /\ \E o1 \in OutputDirs, o2 \in OutputDirs,
        env \in {NoEnv, [TRANSCRIPT_OUTPUT_DIR |-> S_out]},
        existing \in BOOLEAN :
       saves = [stage |-> "serving", env |-> env,
                calls |-> <<SaveCall(o1), SaveCall(o2)>>,
                dirs |-> IF existing THEN {S_out, S_transcripts} ELSE {},
                files |-> IF existing
                          THEN PathJoin(S_out, S_a_b \o S_md) :> OldContent
                          ELSE EmptyFs,
                writes |-> <<>>]

\* index.ts 504: await transcribeFn(...) settles
SavesSettle(i) ==
  /\ saves.stage = "serving"
  /\ saves.calls[i].stage = "awaiting"
  /\ \/ \E title \in ParsedTitles, transcript \in Transcripts :
          saves' = [saves EXCEPT
                      !.calls[i].stage = "settled",
                      !.calls[i].result = TranscriptionResult(title, transcript)]
     \/ saves' = [saves EXCEPT !.calls[i].stage = "done",
                               !.calls[i].response = SaveError("TranscribeFailed")]
  /\ UNCHANGED <<callVars, flows, fin, proc, splice>>

\* index.ts 516-555: the directory, the slug, the path, mkdirSync,
\* writeFileSync and the response; 556-567 when one of them throws
SavesSave(i) ==
  /\ saves.stage = "serving"
  /\ saves.calls[i].stage = "settled"
  /\ LET call == saves.calls[i]
         effectiveOutputDir ==
           EffectiveOutputDir(call.outputDir, DEFAULT_OUTPUT_DIR(saves.env))
         title == JsOr(call.result["title"], Str(S_transcript))
         slug == slugify(title.s)
         savedFilePath == PathJoin(effectiveOutputDir, slug \o S_md)
         exists == effectiveOutputDir \in saves.dirs
     IN IF ~Truthy(effectiveOutputDir)
        THEN saves' = [saves EXCEPT
                         !.calls[i].stage = "done",
                         !.calls[i].response = SaveReply(call.result, <<>>)]
        ELSE IF title.t # "string"
        THEN saves' = [saves EXCEPT
                         !.calls[i].stage = "done",
                         !.calls[i].effectiveOutputDir = effectiveOutputDir,
                         !.calls[i].response = SaveError("TypeError")]
        ELSE \/ /\ ~exists
                /\ saves' = [saves EXCEPT
                               !.calls[i].stage = "done",
                               !.calls[i].effectiveOutputDir = effectiveOutputDir,
                               !.calls[i].slug = slug,
                               !.calls[i].savedFilePath = savedFilePath,
                               !.calls[i].response = SaveError("MkdirFailed")]
             \/ saves' = [saves EXCEPT
                            !.calls[i].stage = "done",
                            !.calls[i].effectiveOutputDir = effectiveOutputDir,
                            !.calls[i].slug = slug,
                            !.calls[i].savedFilePath = savedFilePath,
                            !.dirs = @ \cup {effectiveOutputDir},
                            !.calls[i].response = SaveError("WriteFailed")]
             \/ saves' = [saves EXCEPT
                            !.calls[i].stage = "done",
                            !.calls[i].effectiveOutputDir = effectiveOutputDir,
                            !.calls[i].slug = slug,
                            !.calls[i].savedFilePath = savedFilePath,
                            !.dirs = @ \cup {effectiveOutputDir},
                            !.files = WriteFileSync(@, savedFilePath,
                                                    MarkdownContent(call.result)),
                            !.writes = Append(@, i),
                            !.calls[i].response =
                              SaveReply(call.result, savedFilePath)]
  /\ UNCHANGED <<callVars, flows, fin, proc, splice>>

NextSaves ==
  \/ \E i \in 1..2 : SavesSettle(i)
  \/ \E i \in 1..2 : SavesSave(i)

SpecSaves == InitSaves /\ [][NextSaves]_vars

-----------------------------------------------------------------------------
(* Properties of two saving invocations, under SpecSaves *)

\* the invocations that wrote their file
Wrote == {i \in 1..2 : \E k \in 1..Len(saves.writes) : saves.writes[k] = i}

\* the directory an invocation saves to
SavesInEffect(i) ==
  IF saves.calls[i].outputDir # <<>> THEN saves.calls[i].outputDir
  ELSE IF "TRANSCRIPT_OUTPUT_DIR" \notin DOMAIN saves.env THEN S_transcripts
  ELSE saves.env.TRANSCRIPT_OUTPUT_DIR

\* the slug of an invocation's title
SlugOf(i) ==
  LET title == saves.calls[i].result["title"].s
  IN slugify(IF title = <<>> THEN S_transcript ELSE title)

\* C37: the path of the saved file depends on the save directory in effect
\* and on the slug of the title only (the slug of "transcript" for an empty
\* title); two invocations with the same directory and titles of the same
\* slug write the same path, and when both have completed the file holds the
\* content of the one that wrote last.
C37_SamePathLastWriterWins ==
  saves.stage = "serving" =>
    /\ \A i \in Wrote :
         /\ saves.calls[i].savedFilePath =
              PathJoin(SavesInEffect(i), SlugOf(i) \o S_md)
         /\ saves.calls[i].savedFilePath \in DOMAIN saves.files
    /\ \A i \in Wrote, j \in Wrote :
         SavesInEffect(i) = SavesInEffect(j) /\ SlugOf(i) = SlugOf(j) =>
           saves.calls[i].savedFilePath = saves.calls[j].savedFilePath
    /\ \A i \in Wrote :
         (\A j \in Wrote \ {i} :
            /\ saves.calls[j].savedFilePath = saves.calls[i].savedFilePath
            /\ saves.writes[Len(saves.writes)] = i)
           => saves.files[saves.calls[i].savedFilePath] =
                MarkdownContent(saves.calls[i].result)
    /\ Len(saves.writes) = Cardinality(Wrote)

\* two titles of one slug saved to one directory, given by the caller in one
\* invocation and by the environment in the other; the second invocation
\* wrote first, over a file that was there before
C37_Witness ==
  /\ saves.stage = "serving"
  /\ saves.writes = <<2, 1>>
  /\ saves.calls[1].outputDir = S_out /\ saves.calls[2].outputDir = <<>>
  /\ saves.calls[1].result["title"] = Str(<<"A", " ", "b">>)
  /\ saves.calls[2].result["title"] = Str(<<"a", "-", "B", "!">>)
  /\ saves.calls[1].result["transcript"] # saves.calls[2].result["transcript"]
  /\ saves.calls[1].savedFilePath = PathJoin(S_out, S_a_b \o S_md)
  /\ saves.calls[2].savedFilePath = saves.calls[1].savedFilePath
  /\ DOMAIN saves.files = {saves.calls[1].savedFilePath}
  /\ saves.files[saves.calls[1].savedFilePath] =
       MarkdownContent(saves.calls[1].result)

-----------------------------------------------------------------------------
(* Properties of the intermediate files of a VAD preparation, under Spec *)

\* C38: processWithVad removes its intermediate PCM file whether speech was
\* found, no span was found, or reading, detection or writing threw; a
\* successful VAD preparation deletes the cleaned WAV after the compression,
\* so that when it returns only the compressed output and the acquired file
\* are left for the final cleanup; the acquired file is never deleted as an
\* intermediate.
C38_VadIntermediatesRemoved ==
  Kind = "vad" =>
    /\ pc = "vad_run" => Exists(fs, loc.vadInputPath)
    /\ loc.vadInputPath # NoPath /\ pc # "vad_run" =>
         ~Exists(fs, loc.vadInputPath)
    /\ audioInfo.set /\ Happened("cleanup") = {} =>
         /\ DOMAIN fs = {audioInfo.processedPath, audioInfo.originalPath}
         /\ audioInfo.processedPath # audioInfo.originalPath
         /\ audioInfo.originalPath = loc.tempPath
         /\ audioInfo.processedPath.pre = "gemini_converted_"
         /\ audioInfo.needsCleanup
    /\ audioInfo.set /\ Happened("cleanup") # {} => DOMAIN fs = {}
    /\ loc.tempPath # NoPath /\ Happened("cleanup") = {} =>
         Exists(fs, loc.tempPath)

\* a VAD preparation that found speech has just returned: the PCM file and
\* the cleaned WAV were written and are gone
C38_Witness ==
  /\ Kind = "vad" /\ pc = "upload" /\ audioInfo.set
  /\ loc.segments # <<>>
  /\ loc.vadInputPath # NoPath /\ loc.vadProcessedPath.pre = "vad_cleaned_"
  /\ \E i \in Happened("write") : trace[i].path = loc.vadProcessedPath
  /\ DOMAIN fs = {audioInfo.processedPath, loc.tempPath}

=============================================================================
